---- MODULE Spec2Model ----
(***************************************************************************)
(* A model of the blogging platform's storage layer (MemStorage and        *)
(* DatabaseStorage behind IStorage) and of the REST route handlers of      *)
(* registerRoutes that run on top of it.                                   *)
(***************************************************************************)
EXTENDS Integers, Sequences, FiniteSets, TLC

(***************************************************************************)
(* Bounds of the model.                                                    *)
(***************************************************************************)
\* Rows the child tables (article tags, comments, likes, bookmarks, follows)
\* may hold together, and the ids each of their counters may hand out.
MaxRows == 3
\* Requests that may be in flight at once.
MaxInFlight == 2

\* Two users and two articles: enough to tell "this user / this article"
\* from "another one".
UserIds == {1, 2}
\* An id that no stored user has.
GhostUser == 3
ArticleIds == {1, 2}
\* An id that articleIdCounter never hands out within ArticleIds.
GhostArticle == 3
\* req.isAuthenticated() is false: no session user.
Anon == 0
Titles == {"t0", "t1"}
Passwords == {"pw1", "pw2"}

VARIABLES storage, backend, failing, resp, pending, now

vars == <<storage, backend, failing, resp, pending, now>>

(***************************************************************************)
(* JavaScript values and containers.                                       *)
(***************************************************************************)
\* undefined / a value: an optional is a sequence of length 0 or 1.
Undefined == <<>>
Some(v) == <<v>>
IsDefined(o) == o # <<>>

\* A resolved promise / a rejected one, together with the storage it leaves.
Ok(S, r) == [S |-> S, ret |-> r, err |-> FALSE]
Rejected(S) == [S |-> S, ret |-> Undefined, err |-> TRUE]

Range(s) == {s[i] : i \in DOMAIN s}

RECURSIVE SetToSeq(_)
\* The elements of a finite set of integers in ascending order.
SetToSeq(K) ==
  IF K = {} THEN <<>>
  ELSE LET m == CHOOSE x \in K : \A y \in K : x <= y
       IN <<m>> \o SetToSeq(K \ {m})

\* Array.from(map.values()): insertion order; keys are handed out by
\* increasing counters, so insertion order is ascending key order.
MapValues(m) == LET ks == SetToSeq(DOMAIN m) IN [i \in DOMAIN ks |-> m[ks[i]]]

\* map.set(k, v) and map.delete(k)
MapSet(m, k, v) == (k :> v) @@ m
MapDelete(m, k) == [x \in (DOMAIN m) \ {k} |-> m[x]]

\* { ...a, ...b }: b's properties override a's
Spread(a, b) == b @@ a

\* String.prototype.toLowerCase on the tag names of the model.
toLowerCase(s) ==
  CASE s = "AI" -> "ai"
    [] s = "Ai" -> "ai"
    [] s = "CSS" -> "css"
    [] s = "Go" -> "go"
    [] s = "GO" -> "go"
    [] OTHER -> s

TagNames == {"AI", "ai", "CSS", "go"}

\* The JSON value null where a request body is expected to carry a string.
Null == "<null>"
IsString(v) == v # Null

(***************************************************************************)
(* MemStorage                                                              *)
(***************************************************************************)
EmptyStorage ==
  [ usersData |-> <<>>, articlesData |-> <<>>, tagsData |-> <<>>,
    articleTagsData |-> <<>>, commentsData |-> <<>>, likesData |-> <<>>,
    followsData |-> <<>>, bookmarksData |-> <<>>,
    userIdCounter |-> 1, articleIdCounter |-> 1, tagIdCounter |-> 1,
    commentIdCounter |-> 1, likeIdCounter |-> 1 ]

\* ---- users
Mem_getUser(S, id) ==
  Ok(S, IF id \in DOMAIN S.usersData THEN Some(S.usersData[id]) ELSE Undefined)

Mem_getUserByUsername(S, username) ==
  LET hits == SelectSeq(MapValues(S.usersData), LAMBDA u : u.username = username)
  IN Ok(S, IF hits = <<>> THEN Undefined ELSE Some(Head(hits)))

Mem_createUser(S, user) ==
  LET id == S.userIdCounter
      newUser == Spread(user, [id |-> id])
  IN Ok([S EXCEPT !.userIdCounter = id + 1,
                  !.usersData = MapSet(S.usersData, id, newUser)], newUser)

Mem_updateUser(S, id, data) ==
  IF id \notin DOMAIN S.usersData THEN Ok(S, Undefined)
  ELSE LET updatedUser == Spread(S.usersData[id], data)
       IN Ok([S EXCEPT !.usersData = MapSet(S.usersData, id, updatedUser)],
             Some(updatedUser))

\* ---- tags
\* name.toLowerCase() in the callback of find throws a TypeError when name is
\* not a string and there is a tag to compare it with.
Mem_getTagByName(S, name) ==
  LET hits == SelectSeq(MapValues(S.tagsData),
                        LAMBDA tag : toLowerCase(tag.name) = toLowerCase(name))
  IN IF ~IsString(name) /\ DOMAIN S.tagsData # {} THEN Rejected(S)
     ELSE Ok(S, IF hits = <<>> THEN Undefined ELSE Some(Head(hits)))

\* createTag after its await: the tag is stored under the next id
Mem_insertTag(S, tag) ==
  LET id == S.tagIdCounter
      newTag == Spread(tag, [id |-> id])
  IN Ok([S EXCEPT !.tagIdCounter = id + 1,
                  !.tagsData = MapSet(S.tagsData, id, newTag)], newTag)

Mem_createTag(S, tag) ==
  LET found == Mem_getTagByName(S, tag.name)
      existingTag == found.ret
  IN IF found.err THEN Rejected(S)
     ELSE IF IsDefined(existingTag) THEN Ok(S, existingTag[1])
     ELSE Mem_insertTag(S, tag)

Mem_getAllTags(S) == Ok(S, MapValues(S.tagsData))

\* ---- article tags
Mem_addTagToArticle(S, articleTag) ==
  LET exists == \E i \in DOMAIN S.articleTagsData :
                  /\ S.articleTagsData[i].articleId = articleTag.articleId
                  /\ S.articleTagsData[i].tagId = articleTag.tagId
  IN IF ~exists
     THEN Ok([S EXCEPT !.articleTagsData = Append(S.articleTagsData, articleTag)],
             articleTag)
     ELSE Ok(S, articleTag)

Mem_removeTagFromArticle(S, articleId, tagId) ==
  LET kept == SelectSeq(S.articleTagsData,
                        LAMBDA at : ~(at.articleId = articleId /\ at.tagId = tagId))
  IN Ok([S EXCEPT !.articleTagsData = kept], Len(kept) < Len(S.articleTagsData))

Mem_getTagsByArticleId(S, articleId) ==
  LET ats == SelectSeq(S.articleTagsData, LAMBDA at : at.articleId = articleId)
      tagIds == [i \in DOMAIN ats |-> ats[i].tagId]
      \* tagIds.map(id => tagsData.get(id)).filter(Boolean)
      present == SelectSeq(tagIds, LAMBDA id : id \in DOMAIN S.tagsData)
  IN Ok(S, [i \in DOMAIN present |-> S.tagsData[present[i]]])

\* ---- sorting and slicing
RECURSIVE InsertDesc(_, _)
\* x placed in the descending sequence s before the first element whose key
\* is not greater than x's: x came earlier in the input, so equal keys keep
\* their input order (Array.prototype.sort is stable).
InsertDesc(x, s) ==
  IF s = <<>> THEN <<x>>
  ELSE IF Head(s).key > x.key THEN <<Head(s)>> \o InsertDesc(x, Tail(s))
       ELSE <<x>> \o s

RECURSIVE SortKeyed(_)
SortKeyed(s) ==
  IF s = <<>> THEN <<>> ELSE InsertDesc(Head(s), SortKeyed(Tail(s)))

\* arr.sort((a, b) => key(b) - key(a)), keys[i] being the key of s[i]
SortDesc(s, keys) ==
  LET keyed == SortKeyed([i \in DOMAIN s |-> [key |-> keys[i], val |-> s[i]]])
  IN [i \in DOMAIN keyed |-> keyed[i].val]

\* arr.slice(from, to): a negative index counts from the end of the array,
\* and both indices are clamped to 0 .. arr.length
Slice(s, from, to) ==
  LET Clamp(i) == IF i < 0 THEN (IF Len(s) + i < 0 THEN 0 ELSE Len(s) + i)
                  ELSE IF i > Len(s) THEN Len(s) ELSE i
      Between(lo, hi) == IF lo >= hi THEN <<>> ELSE SubSeq(s, lo + 1, hi)
  IN Between(Clamp(from), Clamp(to))

\* ---- comments
Mem_createComment(S, comment) ==
  LET id == S.commentIdCounter
      newComment == Spread(comment, [id |-> id, createdAt |-> now])
  IN Ok([S EXCEPT !.commentIdCounter = id + 1,
                  !.commentsData = MapSet(S.commentsData, id, newComment)],
        newComment)

Mem_getCommentsByArticleId(S, articleId) ==
  LET mine == SelectSeq(MapValues(S.commentsData), LAMBDA c : c.articleId = articleId)
      sorted == SortDesc(mine, [i \in DOMAIN mine |-> mine[i].createdAt])
      \* comments whose author is not stored are filtered out
      withAuthor == SelectSeq(sorted, LAMBDA c : c.authorId \in DOMAIN S.usersData)
  IN Ok(S, [i \in DOMAIN withAuthor |->
              Spread(withAuthor[i], [author |-> S.usersData[withAuthor[i].authorId]])])

Mem_deleteComment(S, id) ==
  IF id \notin DOMAIN S.commentsData THEN Ok(S, FALSE)
  ELSE Ok([S EXCEPT !.commentsData = MapDelete(S.commentsData, id)], TRUE)

\* ---- likes
\* A like that does not look for an existing one.
Mem_likeArticle_noCheck(S, like) ==
  LET id == S.likeIdCounter
      newLike == Spread(like, [id |-> id])
  IN Ok([S EXCEPT !.likeIdCounter = id + 1,
                  !.likesData = MapSet(S.likesData, id, newLike)], newLike)

Mem_likeArticle(S, like) ==
  LET hits == SelectSeq(MapValues(S.likesData),
                        LAMBDA l : l.userId = like.userId /\ l.articleId = like.articleId)
      id == S.likeIdCounter
      newLike == Spread(like, [id |-> id])
  IN IF hits # <<>> THEN Ok(S, Head(hits))
     ELSE Ok([S EXCEPT !.likeIdCounter = id + 1,
                       !.likesData = MapSet(S.likesData, id, newLike)], newLike)

Mem_unlikeArticle(S, userId, articleId) ==
  LET hits == SelectSeq(MapValues(S.likesData),
                        LAMBDA l : l.userId = userId /\ l.articleId = articleId)
  IN IF hits = <<>> THEN Ok(S, FALSE)
     ELSE Ok([S EXCEPT !.likesData = MapDelete(S.likesData, Head(hits).id)], TRUE)

Mem_isArticleLiked(S, userId, articleId) ==
  Ok(S, \E k \in DOMAIN S.likesData :
          S.likesData[k].userId = userId /\ S.likesData[k].articleId = articleId)

\* A count that forgets the article: every stored like is counted.
Mem_getLikeCount_anyArticle(S, articleId) ==
  Ok(S, Cardinality(DOMAIN S.likesData))

Mem_getLikeCount(S, articleId) ==
  Ok(S, Len(SelectSeq(MapValues(S.likesData), LAMBDA l : l.articleId = articleId)))

\* ---- follows
Mem_isFollowing(S, followerId, followingId) ==
  Ok(S, \E i \in DOMAIN S.followsData :
          /\ S.followsData[i].followerId = followerId
          /\ S.followsData[i].followingId = followingId)

Mem_followUser(S, follow) ==
  IF Mem_isFollowing(S, follow.followerId, follow.followingId).ret THEN Ok(S, follow)
  ELSE Ok([S EXCEPT !.followsData = Append(S.followsData, follow)], follow)

Mem_unfollowUser(S, followerId, followingId) ==
  LET kept == SelectSeq(S.followsData,
                LAMBDA f : ~(f.followerId = followerId /\ f.followingId = followingId))
  IN Ok([S EXCEPT !.followsData = kept], Len(kept) < Len(S.followsData))

Mem_getFollowerCount(S, userId) ==
  Ok(S, Len(SelectSeq(S.followsData, LAMBDA f : f.followingId = userId)))

Mem_getFollowingCount(S, userId) ==
  Ok(S, Len(SelectSeq(S.followsData, LAMBDA f : f.followerId = userId)))

\* ---- bookmarks
Mem_isArticleBookmarked(S, userId, articleId) ==
  Ok(S, \E i \in DOMAIN S.bookmarksData :
          /\ S.bookmarksData[i].userId = userId
          /\ S.bookmarksData[i].articleId = articleId)

Mem_bookmarkArticle(S, bookmark) ==
  IF Mem_isArticleBookmarked(S, bookmark.userId, bookmark.articleId).ret
  THEN Ok(S, bookmark)
  ELSE Ok([S EXCEPT !.bookmarksData = Append(S.bookmarksData, bookmark)], bookmark)

Mem_unbookmarkArticle(S, userId, articleId) ==
  LET kept == SelectSeq(S.bookmarksData,
                LAMBDA b : ~(b.userId = userId /\ b.articleId = articleId))
  IN Ok([S EXCEPT !.bookmarksData = kept], Len(kept) < Len(S.bookmarksData))

\* ---- articles
Mem_createArticle(S, article) ==
  LET id == S.articleIdCounter
      newArticle == Spread(article, [id |-> id, createdAt |-> now])
  IN Ok([S EXCEPT !.articleIdCounter = id + 1,
                  !.articlesData = MapSet(S.articlesData, id, newArticle)],
        newArticle)

\* The view object both getArticle and the listings build around an article.
Mem_withAuthor(S, article, key) ==
  Spread(article,
         [ author |-> S.usersData[article.authorId],
           tags |-> Mem_getTagsByArticleId(S, key).ret,
           _count |-> [ likes |-> Mem_getLikeCount(S, key).ret,
                        comments |-> Len(Mem_getCommentsByArticleId(S, key).ret) ] ])

Mem_getArticle(S, id) ==
  IF id \notin DOMAIN S.articlesData THEN Ok(S, Undefined)
  ELSE LET article == S.articlesData[id]
       IN IF article.authorId \notin DOMAIN S.usersData THEN Ok(S, Undefined)
          ELSE Ok(S, Some(Mem_withAuthor(S, article, id)))

Mem_updateArticle(S, id, data) ==
  IF id \notin DOMAIN S.articlesData THEN Ok(S, Undefined)
  ELSE LET updatedArticle == Spread(S.articlesData[id], data)
       IN Ok([S EXCEPT !.articlesData = MapSet(S.articlesData, id, updatedArticle)],
             Some(updatedArticle))

RECURSIVE Mem_removeEach(_, _)
\* articleTagsToRemove.forEach(at => this.removeTagFromArticle(at.articleId, at.tagId))
Mem_removeEach(S, ats) ==
  IF ats = <<>> THEN S
  ELSE Mem_removeEach(
         Mem_removeTagFromArticle(S, Head(ats).articleId, Head(ats).tagId).S, Tail(ats))

\* A delete that forgets the bookmarks of the article.
Mem_deleteArticle_keepsBookmarks(S, id) ==
  IF id \notin DOMAIN S.articlesData THEN Ok(S, FALSE)
  ELSE
    LET S1 == Mem_removeEach(S, SelectSeq(S.articleTagsData, LAMBDA at : at.articleId = id))
        S2 == [S1 EXCEPT !.commentsData =
                 [k \in {c \in DOMAIN S1.commentsData :
                           S1.commentsData[c].articleId # id} |-> S1.commentsData[k]]]
        S3 == [S2 EXCEPT !.likesData =
                 [k \in {l \in DOMAIN S2.likesData :
                           S2.likesData[l].articleId # id} |-> S2.likesData[k]]]
    IN Ok([S3 EXCEPT !.articlesData = MapDelete(S3.articlesData, id)], TRUE)

Mem_deleteArticle(S, id) ==
  IF id \notin DOMAIN S.articlesData THEN Ok(S, FALSE)
  ELSE
    LET articleTagsToRemove ==
          SelectSeq(S.articleTagsData, LAMBDA at : at.articleId = id)
        S1 == Mem_removeEach(S, articleTagsToRemove)
        S2 == [S1 EXCEPT !.commentsData =
                 [k \in {c \in DOMAIN S1.commentsData :
                           S1.commentsData[c].articleId # id} |-> S1.commentsData[k]]]
        S3 == [S2 EXCEPT !.likesData =
                 [k \in {l \in DOMAIN S2.likesData :
                           S2.likesData[l].articleId # id} |-> S2.likesData[k]]]
        S4 == [S3 EXCEPT !.bookmarksData =
                 SelectSeq(S3.bookmarksData, LAMBDA b : b.articleId # id)]
    IN Ok([S4 EXCEPT !.articlesData = MapDelete(S4.articlesData, id)], TRUE)

\* options: [limit, offset, tag, authorId], each an optional
OptOr(o, default) == IF IsDefined(o) THEN o[1] ELSE default
\* const { limit = 10, ... } = options
DefaultLimit == 10

Mem_getArticles(S, options) ==
  LET limit == OptOr(options.limit, DefaultLimit)
      offset == OptOr(options.offset, 0)
      all == MapValues(S.articlesData)
      \* if (authorId): 0 is falsy, like undefined
      byAuthor == IF IsDefined(options.authorId) /\ options.authorId[1] # 0
                  THEN SelectSeq(all, LAMBDA a : a.authorId = options.authorId[1])
                  ELSE all
      byTag ==
        IF IsDefined(options.tag) /\ options.tag[1] # ""
        THEN LET matchingTag == Mem_getTagByName(S, options.tag[1]).ret
             IN IF IsDefined(matchingTag)
                THEN LET articleIdsWithTag ==
                           {at.articleId : at \in
                              {x \in Range(S.articleTagsData) : x.tagId = matchingTag[1].id}}
                     IN SelectSeq(byAuthor, LAMBDA a : a.id \in articleIdsWithTag)
                ELSE <<>>
        ELSE byAuthor
      sorted == SortDesc(byTag, [i \in DOMAIN byTag |-> byTag[i].createdAt])
      page == Slice(sorted, offset, offset + limit)
      withAuthor == SelectSeq(page, LAMBDA a : a.authorId \in DOMAIN S.usersData)
  IN Ok(S, [i \in DOMAIN withAuthor |-> Mem_withAuthor(S, withAuthor[i], withAuthor[i].id)])

Mem_getFeaturedArticles(S, limit) ==
  LET articles == MapValues(S.articlesData)
      sorted == SortDesc(articles, [i \in DOMAIN articles |-> Mem_getLikeCount(S, articles[i].id).ret])
      topArticles == Slice(sorted, 0, limit)
      withAuthor == SelectSeq(topArticles, LAMBDA a : a.authorId \in DOMAIN S.usersData)
  IN Ok(S, [i \in DOMAIN withAuthor |-> Mem_withAuthor(S, withAuthor[i], withAuthor[i].id)])

Mem_getPopularAuthors(S, limit) ==
  LET users == MapValues(S.usersData)
      usersWithStats ==
        [i \in DOMAIN users |->
           Spread(users[i],
             [_count |->
                [ articles |-> Cardinality({k \in DOMAIN S.articlesData :
                                              S.articlesData[k].authorId = users[i].id}),
                  followers |-> Mem_getFollowerCount(S, users[i].id).ret,
                  following |-> Mem_getFollowingCount(S, users[i].id).ret ]])]
      sorted == SortDesc(usersWithStats,
                        [i \in DOMAIN usersWithStats |-> usersWithStats[i]._count.followers])
  IN Ok(S, Slice(sorted, 0, limit))

Mem_getUserBookmarks(S, userId) ==
  LET mine == SelectSeq(S.bookmarksData, LAMBDA b : b.userId = userId)
      found == SelectSeq(mine, LAMBDA b : IsDefined(Mem_getArticle(S, b.articleId).ret))
  IN Ok(S, [i \in DOMAIN found |-> Mem_getArticle(S, found[i].articleId).ret[1]])

(***************************************************************************)
(* DatabaseStorage.  The tables of shared/schema.ts are held in the same   *)
(* record as MemStorage's collections (users in usersData, likes in        *)
(* likesData, ...); every `await db...` statement is one atomic statement  *)
(* of the relational engine, which enforces the schema's primary keys and  *)
(* foreign keys and rejects the statement that would break one.            *)
(***************************************************************************)
\* references(() => users.id), references(() => articles.id), references(() => tags.id)
Fk_users(S, id) == id \in DOMAIN S.usersData
Fk_articles(S, id) == id \in DOMAIN S.articlesData
Fk_tags(S, id) == id \in DOMAIN S.tagsData

\* rows of the child tables that reference article id
Db_referencesArticle(S, id) ==
  \/ \E i \in DOMAIN S.articleTagsData : S.articleTagsData[i].articleId = id
  \/ \E k \in DOMAIN S.commentsData : S.commentsData[k].articleId = id
  \/ \E k \in DOMAIN S.likesData : S.likesData[k].articleId = id
  \/ \E i \in DOMAIN S.bookmarksData : S.bookmarksData[i].articleId = id

\* ---- statements on likes
Db_selectLike(S, userId, articleId) ==
  LET hits == SelectSeq(MapValues(S.likesData),
                        LAMBDA l : l.userId = userId /\ l.articleId = articleId)
  IN Ok(S, IF hits = <<>> THEN Undefined ELSE Some(Head(hits)))

\* likes has a serial primary key and no unique key on (user_id, article_id)
Db_insertLike(S, like) ==
  LET id == S.likeIdCounter
      newLike == Spread(like, [id |-> id])
  IN IF Fk_users(S, like.userId) /\ Fk_articles(S, like.articleId)
     THEN Ok([S EXCEPT !.likeIdCounter = id + 1,
                       !.likesData = MapSet(S.likesData, id, newLike)], newLike)
     ELSE Rejected(S)

Db_deleteLikes(S, userId, articleId) ==
  LET gone == {k \in DOMAIN S.likesData :
                 S.likesData[k].userId = userId /\ S.likesData[k].articleId = articleId}
  IN Ok([S EXCEPT !.likesData = [k \in (DOMAIN S.likesData) \ gone |-> S.likesData[k]]],
        Cardinality(gone))

Db_likeArticle(S, like) ==
  LET existing == Db_selectLike(S, like.userId, like.articleId).ret
  IN IF IsDefined(existing) THEN Ok(S, existing[1]) ELSE Db_insertLike(S, like)

Db_unlikeArticle(S, userId, articleId) ==
  LET result == Db_deleteLikes(S, userId, articleId)
  IN Ok(result.S, result.ret > 0)

Db_isArticleLiked(S, userId, articleId) ==
  Ok(S, IsDefined(Db_selectLike(S, userId, articleId).ret))

Db_getLikeCount(S, articleId) ==
  Ok(S, Cardinality({k \in DOMAIN S.likesData : S.likesData[k].articleId = articleId}))

\* ---- statements on bookmarks: primaryKey(userId, articleId)
Db_isArticleBookmarked(S, userId, articleId) ==
  Ok(S, \E i \in DOMAIN S.bookmarksData :
          /\ S.bookmarksData[i].userId = userId
          /\ S.bookmarksData[i].articleId = articleId)

Db_insertBookmark(S, bookmark) ==
  IF /\ Fk_users(S, bookmark.userId)
     /\ Fk_articles(S, bookmark.articleId)
     /\ ~Db_isArticleBookmarked(S, bookmark.userId, bookmark.articleId).ret
  THEN Ok([S EXCEPT !.bookmarksData = Append(S.bookmarksData, bookmark)], bookmark)
  ELSE Rejected(S)

Db_bookmarkArticle(S, bookmark) ==
  IF Db_isArticleBookmarked(S, bookmark.userId, bookmark.articleId).ret
  THEN Ok(S, bookmark)
  ELSE Db_insertBookmark(S, bookmark)

Db_unbookmarkArticle(S, userId, articleId) ==
  LET kept == SelectSeq(S.bookmarksData,
                LAMBDA b : ~(b.userId = userId /\ b.articleId = articleId))
  IN Ok([S EXCEPT !.bookmarksData = kept], Len(kept) < Len(S.bookmarksData))

\* ---- statements on article_tags: primaryKey(articleId, tagId)
Db_insertArticleTag(S, articleTag) ==
  IF /\ Fk_articles(S, articleTag.articleId)
     /\ Fk_tags(S, articleTag.tagId)
     /\ ~\E i \in DOMAIN S.articleTagsData :
            /\ S.articleTagsData[i].articleId = articleTag.articleId
            /\ S.articleTagsData[i].tagId = articleTag.tagId
  THEN Ok([S EXCEPT !.articleTagsData = Append(S.articleTagsData, articleTag)],
          articleTag)
  ELSE Rejected(S)

Db_addTagToArticle(S, articleTag) ==
  LET existing == SelectSeq(S.articleTagsData,
                    LAMBDA at : /\ at.articleId = articleTag.articleId
                                /\ at.tagId = articleTag.tagId)
  IN IF existing # <<>> THEN Ok(S, Head(existing))
     ELSE Db_insertArticleTag(S, articleTag)

Db_getTagsByArticleId(S, articleId) ==
  LET ats == SelectSeq(S.articleTagsData, LAMBDA at : at.articleId = articleId)
      present == SelectSeq(ats, LAMBDA at : at.tagId \in DOMAIN S.tagsData)
  IN Ok(S, [i \in DOMAIN present |-> S.tagsData[present[i].tagId]])

\* ---- statements on comments
Db_createComment(S, comment) ==
  LET id == S.commentIdCounter
      newComment == Spread(comment, [id |-> id, createdAt |-> now])
  IN IF Fk_users(S, comment.authorId) /\ Fk_articles(S, comment.articleId)
     THEN Ok([S EXCEPT !.commentIdCounter = id + 1,
                       !.commentsData = MapSet(S.commentsData, id, newComment)],
             newComment)
     ELSE Rejected(S)

Db_getCommentsByArticleId(S, articleId) ==
  LET mine == SelectSeq(MapValues(S.commentsData), LAMBDA c : c.articleId = articleId)
      sorted == SortDesc(mine, [i \in DOMAIN mine |-> mine[i].createdAt])
      withAuthor == SelectSeq(sorted, LAMBDA c : c.authorId \in DOMAIN S.usersData)
  IN Ok(S, [i \in DOMAIN withAuthor |->
              Spread(withAuthor[i], [author |-> S.usersData[withAuthor[i].authorId]])])

\* ---- statements on articles
Db_createArticle(S, article) ==
  LET id == S.articleIdCounter
      newArticle == Spread(article, [id |-> id, createdAt |-> now])
  IN IF Fk_users(S, article.authorId)
     THEN Ok([S EXCEPT !.articleIdCounter = id + 1,
                       !.articlesData = MapSet(S.articlesData, id, newArticle)],
             newArticle)
     ELSE Rejected(S)

Db_getArticle(S, id) ==
  IF id \notin DOMAIN S.articlesData THEN Ok(S, Undefined)
  ELSE LET article == S.articlesData[id]
       IN IF article.authorId \notin DOMAIN S.usersData THEN Ok(S, Undefined)
          ELSE Ok(S, Some(Spread(article,
                 [ author |-> S.usersData[article.authorId],
                   tags |-> Db_getTagsByArticleId(S, id).ret,
                   _count |->
                     [ likes |-> Cardinality({k \in DOMAIN S.likesData :
                                                S.likesData[k].articleId = id}),
                       comments |-> Cardinality({k \in DOMAIN S.commentsData :
                                                   S.commentsData[k].articleId = id}) ] ])))

\* the five delete statements of deleteArticle, in order
Db_deleteArticleTags(S, id) ==
  Ok([S EXCEPT !.articleTagsData =
        SelectSeq(S.articleTagsData, LAMBDA at : at.articleId # id)], TRUE)

Db_deleteComments(S, id) ==
  Ok([S EXCEPT !.commentsData =
        [k \in {c \in DOMAIN S.commentsData : S.commentsData[c].articleId # id}
           |-> S.commentsData[k]]], TRUE)

Db_deleteLikesOf(S, id) ==
  Ok([S EXCEPT !.likesData =
        [k \in {l \in DOMAIN S.likesData : S.likesData[l].articleId # id}
           |-> S.likesData[k]]], TRUE)

Db_deleteBookmarks(S, id) ==
  Ok([S EXCEPT !.bookmarksData =
        SelectSeq(S.bookmarksData, LAMBDA b : b.articleId # id)], TRUE)

\* delete from articles where id = ...: rejected while a child row references it
Db_deleteArticleRow(S, id) ==
  IF id \notin DOMAIN S.articlesData THEN Ok(S, 0)
  ELSE IF Db_referencesArticle(S, id) THEN Rejected(S)
  ELSE Ok([S EXCEPT !.articlesData = MapDelete(S.articlesData, id)], 1)

Db_deleteArticle(S, id) ==
  LET S1 == Db_deleteArticleTags(S, id).S
      S2 == Db_deleteComments(S1, id).S
      S3 == Db_deleteLikesOf(S2, id).S
      S4 == Db_deleteBookmarks(S3, id).S
      result == Db_deleteArticleRow(S4, id)
  IN IF result.err THEN Rejected(result.S) ELSE Ok(result.S, result.ret > 0)

Db_getUserBookmarks(S, userId) ==
  LET mine == SelectSeq(S.bookmarksData, LAMBDA b : b.userId = userId)
      found == SelectSeq(mine, LAMBDA b : IsDefined(Db_getArticle(S, b.articleId).ret))
  IN Ok(S, [i \in DOMAIN found |-> Db_getArticle(S, found[i].articleId).ret[1]])

\* ---- statements on users: username is unique
Db_getUser(S, id) ==
  Ok(S, IF id \in DOMAIN S.usersData THEN Some(S.usersData[id]) ELSE Undefined)

Db_getUserByUsername(S, username) ==
  LET hits == SelectSeq(MapValues(S.usersData), LAMBDA u : u.username = username)
  IN Ok(S, IF hits = <<>> THEN Undefined ELSE Some(Head(hits)))

\* update users set ... where id = ... returning *
Db_updateUser(S, id, data) ==
  IF DOMAIN data = {} THEN Rejected(S)
  ELSE IF id \notin DOMAIN S.usersData THEN Ok(S, Undefined)
  ELSE LET updatedUser == Spread(S.usersData[id], data)
           taken == \E k \in (DOMAIN S.usersData) \ {id} :
                      S.usersData[k].username = updatedUser.username
       IN IF taken THEN Rejected(S)
          ELSE Ok([S EXCEPT !.usersData = MapSet(S.usersData, id, updatedUser)],
                  Some(updatedUser))

\* ---- statements on tags: name is unique (as written, not ignoring case)
\* LOWER(NULL) is NULL and the comparison selects no row.
Db_getTagByName(S, name) ==
  LET hits == SelectSeq(MapValues(S.tagsData),
                        LAMBDA tag : /\ IsString(name)
                                     /\ toLowerCase(tag.name) = toLowerCase(name))
  IN Ok(S, IF hits = <<>> THEN Undefined ELSE Some(Head(hits)))

Db_insertTag(S, tag) ==
  LET id == S.tagIdCounter
      newTag == Spread(tag, [id |-> id])
  IN IF ~IsString(tag.name) THEN Rejected(S)          \* name is NOT NULL
     ELSE IF \E k \in DOMAIN S.tagsData : S.tagsData[k].name = tag.name
          THEN Rejected(S)
     ELSE Ok([S EXCEPT !.tagIdCounter = id + 1,
                       !.tagsData = MapSet(S.tagsData, id, newTag)], newTag)

Db_createTag(S, tag) ==
  LET existingTag == Db_getTagByName(S, tag.name).ret
  IN IF IsDefined(existingTag) THEN Ok(S, existingTag[1]) ELSE Db_insertTag(S, tag)

Db_removeTagFromArticle(S, articleId, tagId) ==
  LET kept == SelectSeq(S.articleTagsData,
                        LAMBDA at : ~(at.articleId = articleId /\ at.tagId = tagId))
  IN Ok([S EXCEPT !.articleTagsData = kept], Len(kept) < Len(S.articleTagsData))

Db_deleteComment(S, id) ==
  IF id \notin DOMAIN S.commentsData THEN Ok(S, FALSE)
  ELSE Ok([S EXCEPT !.commentsData = MapDelete(S.commentsData, id)], TRUE)

\* ---- statements on follows: primaryKey(followerId, followingId)
Db_isFollowing(S, followerId, followingId) ==
  Ok(S, \E i \in DOMAIN S.followsData :
          /\ S.followsData[i].followerId = followerId
          /\ S.followsData[i].followingId = followingId)

Db_insertFollow(S, follow) ==
  IF /\ Fk_users(S, follow.followerId)
     /\ Fk_users(S, follow.followingId)
     /\ ~Db_isFollowing(S, follow.followerId, follow.followingId).ret
  THEN Ok([S EXCEPT !.followsData = Append(S.followsData, follow)], follow)
  ELSE Rejected(S)

Db_followUser(S, follow) ==
  IF Db_isFollowing(S, follow.followerId, follow.followingId).ret THEN Ok(S, follow)
  ELSE Db_insertFollow(S, follow)

Db_unfollowUser(S, followerId, followingId) ==
  LET kept == SelectSeq(S.followsData,
                LAMBDA f : ~(f.followerId = followerId /\ f.followingId = followingId))
  IN Ok([S EXCEPT !.followsData = kept], Len(kept) < Len(S.followsData))

Db_getFollowerCount(S, userId) ==
  Ok(S, Len(SelectSeq(S.followsData, LAMBDA f : f.followingId = userId)))

Db_getFollowingCount(S, userId) ==
  Ok(S, Len(SelectSeq(S.followsData, LAMBDA f : f.followerId = userId)))

\* ---- article listings
\* The columns of the articles table; set(data) writes these and no others.
ArticleColumns == {"id", "title", "authorId", "createdAt"}

\* update articles set ... where id = ... returning *
Db_updateArticle(S, id, data) ==
  LET cols == (DOMAIN data) \cap ArticleColumns
      values == [c \in cols |-> data[c]]
  IN IF cols = {} THEN Rejected(S)
     ELSE IF id \notin DOMAIN S.articlesData THEN Ok(S, Undefined)
     ELSE LET updated == Spread(S.articlesData[id], values)
              pkOk == updated.id = id
                        \/ (updated.id \notin DOMAIN S.articlesData
                            /\ ~Db_referencesArticle(S, id))
          IN IF ~pkOk \/ ~Fk_users(S, updated.authorId) THEN Rejected(S)
             ELSE Ok([S EXCEPT !.articlesData =
                        MapSet(MapDelete(S.articlesData, id), updated.id, updated)],
                     Some(updated))

Db_withAuthor(S, article) ==
  Spread(article,
         [ author |-> S.usersData[article.authorId],
           tags |-> Db_getTagsByArticleId(S, article.id).ret,
           _count |-> [ likes |-> Cardinality({k \in DOMAIN S.likesData :
                                                 S.likesData[k].articleId = article.id}),
                        comments |-> Cardinality({k \in DOMAIN S.commentsData :
                                       S.commentsData[k].articleId = article.id}) ] ])

Db_getArticles(S, options) ==
  LET limit == OptOr(options.limit, DefaultLimit)
      offset == OptOr(options.offset, 0)
      all == MapValues(S.articlesData)
      byAuthor == IF IsDefined(options.authorId) /\ options.authorId[1] # 0
                  THEN SelectSeq(all, LAMBDA a : a.authorId = options.authorId[1])
                  ELSE all
      sorted == SortDesc(byAuthor, [i \in DOMAIN byAuthor |-> byAuthor[i].createdAt])
      fetchedArticles == Slice(sorted, offset, offset + limit)
      withAuthor == SelectSeq(fetchedArticles, LAMBDA a : a.authorId \in DOMAIN S.usersData)
      views == [i \in DOMAIN withAuthor |-> Db_withAuthor(S, withAuthor[i])]
      \* the tag filter runs on the page that was fetched
      result == IF IsDefined(options.tag) /\ options.tag[1] # ""
                THEN SelectSeq(views, LAMBDA v :
                       \E i \in DOMAIN v.tags :
                         toLowerCase(v.tags[i].name) = toLowerCase(options.tag[1]))
                ELSE views
  \* LIMIT and OFFSET must not be negative
  IN IF limit < 0 \/ offset < 0 THEN Rejected(S) ELSE Ok(S, result)

Db_getFeaturedArticles(S, limit) ==
  LET liked == SelectSeq(MapValues(S.articlesData),
                         LAMBDA a : \E k \in DOMAIN S.likesData :
                                      S.likesData[k].articleId = a.id)
      counts == [i \in DOMAIN liked |->
                   Cardinality({k \in DOMAIN S.likesData :
                                  S.likesData[k].articleId = liked[i].id})]
      top == Slice(SortDesc(liked, counts), 0, limit)
      first == SelectSeq(top, LAMBDA a : a.authorId \in DOMAIN S.usersData)
      all == MapValues(S.articlesData)
      recentArticles ==
        IF Len(first) < limit
        THEN Slice(SortDesc(all, [i \in DOMAIN all |-> all[i].createdAt]),
                   0, limit - Len(first))
        ELSE <<>>
      more == SelectSeq(recentArticles,
                LAMBDA a : /\ \A i \in DOMAIN first : first[i].id # a.id
                           /\ a.authorId \in DOMAIN S.usersData)
      chosen == first \o more
  IN IF limit < 0 THEN Rejected(S)
     ELSE Ok(S, [i \in DOMAIN chosen |-> Db_withAuthor(S, chosen[i])])

Db_getPopularAuthors(S, limit) ==
  LET users == MapValues(S.usersData)
      stats(u) == Spread(u,
        [_count |->
           [ articles |-> Cardinality({k \in DOMAIN S.articlesData :
                                         S.articlesData[k].authorId = u.id}),
             followers |-> Db_getFollowerCount(S, u.id).ret,
             following |-> Db_getFollowingCount(S, u.id).ret ]])
      followed == SelectSeq(users, LAMBDA u : Db_getFollowerCount(S, u.id).ret > 0)
      top == Slice(SortDesc(followed,
                     [i \in DOMAIN followed |-> Db_getFollowerCount(S, followed[i].id).ret]),
                   0, limit)
      recentUsers == IF Len(top) < limit THEN Slice(users, 0, limit - Len(top)) ELSE <<>>
      more == SelectSeq(recentUsers, LAMBDA u : \A i \in DOMAIN top : top[i].id # u.id)
      chosen == top \o more
  IN Ok(S, [i \in DOMAIN chosen |-> stats(chosen[i])])

(***************************************************************************)
(* The exported `storage` object: the IStorage method of the backend in    *)
(* use.  A method named in `failing` rejects (the database is unreachable  *)
(* for it) and leaves the storage as it was.                               *)
(***************************************************************************)
IsMem == backend = "mem"
Fails(op) == op \in failing

st_getArticle(S, id) ==
  IF Fails("getArticle") THEN Rejected(S)
  ELSE IF IsMem THEN Mem_getArticle(S, id) ELSE Db_getArticle(S, id)
st_createArticle(S, article) ==
  IF Fails("createArticle") THEN Rejected(S)
  ELSE IF IsMem THEN Mem_createArticle(S, article) ELSE Db_createArticle(S, article)
st_deleteArticle(S, id) ==
  IF Fails("deleteArticle") THEN Rejected(S)
  ELSE IF IsMem THEN Mem_deleteArticle(S, id) ELSE Db_deleteArticle(S, id)
st_addTagToArticle(S, at) ==
  IF Fails("addTagToArticle") THEN Rejected(S)
  ELSE IF IsMem THEN Mem_addTagToArticle(S, at) ELSE Db_addTagToArticle(S, at)
st_createComment(S, comment) ==
  IF Fails("createComment") THEN Rejected(S)
  ELSE IF IsMem THEN Mem_createComment(S, comment) ELSE Db_createComment(S, comment)
st_likeArticle(S, like) ==
  IF Fails("likeArticle") THEN Rejected(S)
  ELSE IF IsMem THEN Mem_likeArticle(S, like) ELSE Db_likeArticle(S, like)
st_unlikeArticle(S, userId, articleId) ==
  IF Fails("unlikeArticle") THEN Rejected(S)
  ELSE IF IsMem THEN Mem_unlikeArticle(S, userId, articleId)
       ELSE Db_unlikeArticle(S, userId, articleId)
st_isArticleLiked(S, userId, articleId) ==
  IF Fails("isArticleLiked") THEN Rejected(S)
  ELSE IF IsMem THEN Mem_isArticleLiked(S, userId, articleId)
       ELSE Db_isArticleLiked(S, userId, articleId)
st_getLikeCount(S, articleId) ==
  IF Fails("getLikeCount") THEN Rejected(S)
  ELSE IF IsMem THEN Mem_getLikeCount(S, articleId) ELSE Db_getLikeCount(S, articleId)
st_bookmarkArticle(S, bookmark) ==
  IF Fails("bookmarkArticle") THEN Rejected(S)
  ELSE IF IsMem THEN Mem_bookmarkArticle(S, bookmark) ELSE Db_bookmarkArticle(S, bookmark)
st_unbookmarkArticle(S, userId, articleId) ==
  IF Fails("unbookmarkArticle") THEN Rejected(S)
  ELSE IF IsMem THEN Mem_unbookmarkArticle(S, userId, articleId)
       ELSE Db_unbookmarkArticle(S, userId, articleId)
st_isArticleBookmarked(S, userId, articleId) ==
  IF Fails("isArticleBookmarked") THEN Rejected(S)
  ELSE IF IsMem THEN Mem_isArticleBookmarked(S, userId, articleId)
       ELSE Db_isArticleBookmarked(S, userId, articleId)
st_getUserBookmarks(S, userId) ==
  IF Fails("getUserBookmarks") THEN Rejected(S)
  ELSE IF IsMem THEN Mem_getUserBookmarks(S, userId) ELSE Db_getUserBookmarks(S, userId)

st_getUser(S, id) ==
  IF Fails("getUser") THEN Rejected(S)
  ELSE IF IsMem THEN Mem_getUser(S, id) ELSE Db_getUser(S, id)
st_getUserByUsername(S, username) ==
  IF Fails("getUserByUsername") THEN Rejected(S)
  ELSE IF IsMem THEN Mem_getUserByUsername(S, username) ELSE Db_getUserByUsername(S, username)
st_updateUser(S, id, data) ==
  IF Fails("updateUser") THEN Rejected(S)
  ELSE IF IsMem THEN Mem_updateUser(S, id, data) ELSE Db_updateUser(S, id, data)
st_updateArticle(S, id, data) ==
  IF Fails("updateArticle") THEN Rejected(S)
  ELSE IF IsMem THEN Mem_updateArticle(S, id, data) ELSE Db_updateArticle(S, id, data)
st_getArticles(S, options) ==
  IF Fails("getArticles") THEN Rejected(S)
  ELSE IF IsMem THEN Mem_getArticles(S, options) ELSE Db_getArticles(S, options)
st_getFeaturedArticles(S, limit) ==
  IF Fails("getFeaturedArticles") THEN Rejected(S)
  ELSE IF IsMem THEN Mem_getFeaturedArticles(S, limit) ELSE Db_getFeaturedArticles(S, limit)
st_getTagByName(S, name) ==
  IF Fails("getTagByName") THEN Rejected(S)
  ELSE IF IsMem THEN Mem_getTagByName(S, name) ELSE Db_getTagByName(S, name)
st_createTag(S, tag) ==
  IF Fails("createTag") THEN Rejected(S)
  ELSE IF IsMem THEN Mem_createTag(S, tag) ELSE Db_createTag(S, tag)
st_removeTagFromArticle(S, articleId, tagId) ==
  IF Fails("removeTagFromArticle") THEN Rejected(S)
  ELSE IF IsMem THEN Mem_removeTagFromArticle(S, articleId, tagId) ELSE Db_removeTagFromArticle(S, articleId, tagId)
st_getTagsByArticleId(S, articleId) ==
  IF Fails("getTagsByArticleId") THEN Rejected(S)
  ELSE IF IsMem THEN Mem_getTagsByArticleId(S, articleId) ELSE Db_getTagsByArticleId(S, articleId)
st_getCommentsByArticleId(S, articleId) ==
  IF Fails("getCommentsByArticleId") THEN Rejected(S)
  ELSE IF IsMem THEN Mem_getCommentsByArticleId(S, articleId) ELSE Db_getCommentsByArticleId(S, articleId)
st_deleteComment(S, id) ==
  IF Fails("deleteComment") THEN Rejected(S)
  ELSE IF IsMem THEN Mem_deleteComment(S, id) ELSE Db_deleteComment(S, id)
st_followUser(S, follow) ==
  IF Fails("followUser") THEN Rejected(S)
  ELSE IF IsMem THEN Mem_followUser(S, follow) ELSE Db_followUser(S, follow)
st_unfollowUser(S, followerId, followingId) ==
  IF Fails("unfollowUser") THEN Rejected(S)
  ELSE IF IsMem THEN Mem_unfollowUser(S, followerId, followingId) ELSE Db_unfollowUser(S, followerId, followingId)
st_isFollowing(S, followerId, followingId) ==
  IF Fails("isFollowing") THEN Rejected(S)
  ELSE IF IsMem THEN Mem_isFollowing(S, followerId, followingId) ELSE Db_isFollowing(S, followerId, followingId)
st_getFollowerCount(S, userId) ==
  IF Fails("getFollowerCount") THEN Rejected(S)
  ELSE IF IsMem THEN Mem_getFollowerCount(S, userId) ELSE Db_getFollowerCount(S, userId)
st_getFollowingCount(S, userId) ==
  IF Fails("getFollowingCount") THEN Rejected(S)
  ELSE IF IsMem THEN Mem_getFollowingCount(S, userId) ELSE Db_getFollowingCount(S, userId)
st_getPopularAuthors(S, limit) ==
  IF Fails("getPopularAuthors") THEN Rejected(S)
  ELSE IF IsMem THEN Mem_getPopularAuthors(S, limit) ELSE Db_getPopularAuthors(S, limit)

(***************************************************************************)
(* registerRoutes: the route handlers.  A handler is an operator from the  *)
(* storage, the session's user (Anon when the request carries no           *)
(* authenticated session) and the request's parameters to the storage it   *)
(* leaves and the response it sends: [S, status, body, unhandled].         *)
(***************************************************************************)
R(S, status, body) ==
  [S |-> S, status |-> status, body |-> body, unhandled |-> FALSE]
Msg(m) == [message |-> m]
\* res.status(204).send(), res.json(undefined)
NoBody == <<>>
JsonOf(o) == IF IsDefined(o) THEN o[1] ELSE NoBody
\* what res.json writes for a promise
PromiseJson == "{}"
Without(rec, field) == [k \in (DOMAIN rec) \ {field} |-> rec[k]]

\* req.isAuthenticated()
isAuthenticated(user) == user # Anon
\* req.user: the stored user of the session
reqUser(S, user) == S.usersData[user]
\* hashPassword of ./auth, applied to the passwords a request may carry
hashPassword(password) ==
  CASE password = "pw1" -> "hash1"
    [] password = "pw2" -> "hash2"
    [] OTHER -> "hash"

Unauthenticated_forbidden(S) == R(S, 403, Msg("Authentication required"))
Unauthenticated(S) == R(S, 401, Msg("Authentication required"))
\* app.<method>(path, isAuthenticated, handler)
Guarded(S, user, h) == IF isAuthenticated(user) THEN h ELSE Unauthenticated(S)

RECURSIVE MarkEach(_, _, _)
\* for (const article of articles) { article.isLiked = await ...; article.isBookmarked = await ... }
MarkEach(S, userId, articles) ==
  IF articles = <<>> THEN Ok(S, <<>>)
  ELSE LET article == Head(articles)
           l == st_isArticleLiked(S, userId, article.id)
           b == st_isArticleBookmarked(S, userId, article.id)
           rest == MarkEach(S, userId, Tail(articles))
       IN IF l.err \/ b.err \/ rest.err THEN Rejected(S)
          ELSE Ok(S, <<Spread(article, [isLiked |-> l.ret, isBookmarked |-> b.ret])>>
                       \o rest.ret)

\* req.query.limit ? parseInt(req.query.limit) : 10
QueryDefaultLimit == 10
\* req.query.limit ? parseInt(req.query.limit) : 3
FeaturedDefaultLimit == 3
\* req.query.limit ? parseInt(req.query.limit) : 5
AuthorsDefaultLimit == 5

\* query: [limit, offset, tag, authorId], each an optional
Get_articles(S, user, query) ==
  LET options == [ limit |-> Some(OptOr(query.limit, QueryDefaultLimit)),
                   offset |-> Some(OptOr(query.offset, 0)),
                   tag |-> query.tag, authorId |-> query.authorId ]
      a == st_getArticles(S, options)
      m == IF a.err THEN a
           ELSE IF isAuthenticated(user) THEN MarkEach(a.S, user, a.ret) ELSE a
  IN IF m.err THEN R(m.S, 500, Msg("Failed to fetch articles"))
     ELSE R(m.S, 200, m.ret)

Get_articles_featured(S, user, limit) ==
  LET a == st_getFeaturedArticles(S, OptOr(limit, FeaturedDefaultLimit))
      m == IF a.err THEN a
           ELSE IF isAuthenticated(user) THEN MarkEach(a.S, user, a.ret) ELSE a
  IN IF m.err THEN R(m.S, 500, Msg("Failed to fetch featured articles"))
     ELSE R(m.S, 200, m.ret)

Get_articles_id(S, user, id) ==
  LET a == st_getArticle(S, id)
      l == st_isArticleLiked(S, user, id)
      b == st_isArticleBookmarked(S, user, id)
  IN IF a.err THEN R(S, 500, Msg("Failed to fetch article"))
     ELSE IF ~IsDefined(a.ret) THEN R(S, 404, Msg("Article not found"))
     ELSE IF ~isAuthenticated(user) THEN R(S, 200, a.ret[1])
     ELSE IF l.err \/ b.err THEN R(S, 500, Msg("Failed to fetch article"))
     ELSE R(S, 200, Spread(a.ret[1], [isLiked |-> l.ret, isBookmarked |-> b.ret]))

RECURSIVE AttachTags(_, _, _)
\* for (const tagName of req.body.tags) { get or create the tag; addTagToArticle }
AttachTags(S, articleId, tagNames) ==
  LET Added(t) == IF t.err THEN Rejected(t.S)
                  ELSE AttachTags(t.S, articleId, Tail(tagNames))
      Having(T, tag) ==
        Added(st_addTagToArticle(T, [articleId |-> articleId, tagId |-> tag.id]))
      Created(n) == IF n.err THEN Rejected(n.S) ELSE Having(n.S, n.ret)
      Looked(g) == IF g.err THEN Rejected(g.S)
                   ELSE IF IsDefined(g.ret) THEN Having(g.S, g.ret[1])
                   ELSE Created(st_createTag(g.S, [name |-> Head(tagNames)]))
  IN IF tagNames = <<>> THEN Ok(S, TRUE)
     ELSE Looked(st_getTagByName(S, Head(tagNames)))
\* the loop over existingTags left out: no association is removed
DetachTags_none(S, id, existingTags) == Ok(S, TRUE)
RECURSIVE DetachTags(_, _, _)
\* for (const tag of existingTags) await storage.removeTagFromArticle(id, tag.id)
DetachTags(S, id, existingTags) ==
  IF existingTags = <<>> THEN Ok(S, TRUE)
  ELSE LET r == st_removeTagFromArticle(S, id, Head(existingTags).id)
       IN IF r.err THEN Rejected(r.S) ELSE DetachTags(r.S, id, Tail(existingTags))

\* The fields insertArticleSchema picks, of those the model keeps.
InsertArticleFields == {"title", "authorId"}
\* insertArticleSchema.parse: title is a required string; keys outside the
\* schema are dropped. Undefined stands for the ZodError thrown.
insertArticleSchema_parse(data) ==
  IF "title" \in DOMAIN data /\ IsString(data.title)
  THEN Some([k \in DOMAIN data \cap InsertArticleFields |-> data[k]])
  ELSE Undefined

\* { ...req.body, authorId: req.user.id } with the two spreads exchanged
articleDataOf_bodyLast(body, user) == Spread([authorId |-> user], body)
\* const articleData = { ...req.body, authorId: req.user.id }
articleDataOf(body, user) == Spread(body, [authorId |-> user])

Post_articles(S, user, body) ==
  LET Failed(T) == R(T, 500, Msg("Failed to create article"))
      Fetched(f) == IF f.err THEN Failed(f.S) ELSE R(f.S, 201, JsonOf(f.ret))
      Tagged(t, id) == IF t.err THEN Failed(t.S) ELSE Fetched(st_getArticle(t.S, id))
      Created(c) ==
        IF c.err THEN Failed(c.S)
        ELSE IF "tags" \in DOMAIN body
             THEN Tagged(AttachTags(c.S, c.ret.id, body.tags), c.ret.id)
        ELSE Tagged(c, c.ret.id)
      Validated(v) ==
        IF ~IsDefined(v) THEN R(S, 400, Msg("Validation error"))
        ELSE Created(st_createArticle(S, v[1]))
  IN Guarded(S, user, Validated(insertArticleSchema_parse(articleDataOf(body, user))))
Put_articles_id(S, user, id, body) ==
  LET Failed(T) == R(T, 500, Msg("Failed to update article"))
      Fetched(f) == IF f.err THEN Failed(f.S) ELSE R(f.S, 200, JsonOf(f.ret))
      Tagged(t) == IF t.err THEN Failed(t.S) ELSE Fetched(st_getArticle(t.S, id))
      Detached(d) == IF d.err THEN Failed(d.S)
                     ELSE Tagged(AttachTags(d.S, id, body.tags))
      Existing(e) == IF e.err THEN Failed(e.S) ELSE Detached(DetachTags(e.S, id, e.ret))
      Updated(u) ==
        IF u.err THEN Failed(u.S)
        ELSE IF "tags" \in DOMAIN body THEN Existing(st_getTagsByArticleId(u.S, id))
        ELSE Tagged(u)
      Found(a) ==
        IF a.err THEN Failed(S)
        ELSE IF ~IsDefined(a.ret) THEN R(S, 404, Msg("Article not found"))
        ELSE IF a.ret[1].authorId # user
             THEN R(S, 403, Msg("You are not authorized to update this article"))
        ELSE Updated(st_updateArticle(S, id, body))
  IN Guarded(S, user, Found(st_getArticle(S, id)))
\* DELETE /api/articles/:id without its check of the author
Delete_articles_id_noAuthorCheck(S, user, id) ==
  Guarded(S, user,
  LET a == st_getArticle(S, id)
      d == st_deleteArticle(S, id)
  IN IF a.err THEN R(S, 500, Msg("Failed to delete article"))
     ELSE IF ~IsDefined(a.ret) THEN R(S, 404, Msg("Article not found"))
     ELSE IF d.err THEN R(d.S, 500, Msg("Failed to delete article"))
     ELSE R(d.S, 204, NoBody))
Delete_articles_id(S, user, id) ==
  Guarded(S, user,
    LET a == st_getArticle(S, id)
        d == st_deleteArticle(S, id)
    IN IF a.err THEN R(S, 500, Msg("Failed to delete article"))
       ELSE IF ~IsDefined(a.ret) THEN R(S, 404, Msg("Article not found"))
       ELSE IF a.ret[1].authorId # user
            THEN R(S, 403, Msg("You are not authorized to delete this article"))
       ELSE IF d.err THEN R(d.S, 500, Msg("Failed to delete article"))
       ELSE R(d.S, 204, NoBody))

Get_articles_id_comments(S, user, articleId) ==
  LET c == st_getCommentsByArticleId(S, articleId)
  IN IF c.err THEN R(S, 500, Msg("Failed to fetch comments"))
     ELSE R(S, 200, c.ret)

\* insertCommentSchema.parse: content is required
Post_articles_id_comments(S, user, articleId, body) ==
  Guarded(S, user,
    LET a == st_getArticle(S, articleId)
        commentData == [content |-> body.content, authorId |-> user,
                        articleId |-> articleId]
        c == st_createComment(S, commentData)
    IN IF a.err THEN R(S, 500, Msg("Failed to create comment"))
       ELSE IF ~IsDefined(a.ret) THEN R(S, 404, Msg("Article not found"))
       ELSE IF "content" \notin DOMAIN body THEN R(S, 400, Msg("Validation error"))
       ELSE IF c.err THEN R(c.S, 500, Msg("Failed to create comment"))
       ELSE R(c.S, 201, Spread(c.ret, [author |-> reqUser(S, user)])))

\* db.select().from(comments).where(eq(comments.id, id)): the comments table
\* of the database, which only DatabaseStorage writes
db_selectComment(S, id) ==
  IF Fails("db.select") THEN Rejected(S)
  ELSE IF IsMem \/ id \notin DOMAIN S.commentsData THEN Ok(S, Undefined)
  ELSE Ok(S, Some(S.commentsData[id]))

Delete_comments_id(S, user, id) ==
  Guarded(S, user,
    LET c == db_selectComment(S, id)
        d == st_deleteComment(S, id)
    IN IF c.err THEN R(S, 500, Msg("Failed to delete comment"))
       ELSE IF ~IsDefined(c.ret) THEN R(S, 404, Msg("Comment not found"))
       ELSE IF c.ret[1].authorId # user
            THEN R(S, 403, Msg("You are not authorized to delete this comment"))
       ELSE IF d.err THEN R(d.S, 500, Msg("Failed to delete comment"))
       ELSE R(d.S, 204, NoBody))

Post_articles_id_like(S, user, articleId) ==
  Guarded(S, user,
    LET a == st_getArticle(S, articleId)
        l == st_likeArticle(S, [userId |-> user, articleId |-> articleId])
        n == IF l.err THEN l ELSE st_getLikeCount(l.S, articleId)
    IN IF a.err THEN R(S, 500, Msg("Failed to like article"))
       ELSE IF ~IsDefined(a.ret) THEN R(S, 404, Msg("Article not found"))
       ELSE IF n.err THEN R(n.S, 500, Msg("Failed to like article"))
       ELSE R(n.S, 200, [liked |-> TRUE, likeCount |-> n.ret]))

Delete_articles_id_like(S, user, articleId) ==
  Guarded(S, user,
    LET a == st_getArticle(S, articleId)
        l == st_unlikeArticle(S, user, articleId)
        n == IF l.err THEN l ELSE st_getLikeCount(l.S, articleId)
    IN IF a.err THEN R(S, 500, Msg("Failed to unlike article"))
       ELSE IF ~IsDefined(a.ret) THEN R(S, 404, Msg("Article not found"))
       ELSE IF n.err THEN R(n.S, 500, Msg("Failed to unlike article"))
       ELSE R(n.S, 200, [liked |-> FALSE, likeCount |-> n.ret]))

Post_articles_id_bookmark(S, user, articleId) ==
  Guarded(S, user,
    LET a == st_getArticle(S, articleId)
        b == st_bookmarkArticle(S, [userId |-> user, articleId |-> articleId])
    IN IF a.err THEN R(S, 500, Msg("Failed to bookmark article"))
       ELSE IF ~IsDefined(a.ret) THEN R(S, 404, Msg("Article not found"))
       ELSE IF b.err THEN R(b.S, 500, Msg("Failed to bookmark article"))
       ELSE R(b.S, 200, [bookmarked |-> TRUE]))

Delete_articles_id_bookmark(S, user, articleId) ==
  Guarded(S, user,
    LET a == st_getArticle(S, articleId)
        b == st_unbookmarkArticle(S, user, articleId)
    IN IF a.err THEN R(S, 500, Msg("Failed to remove bookmark"))
       ELSE IF ~IsDefined(a.ret) THEN R(S, 404, Msg("Article not found"))
       ELSE IF b.err THEN R(b.S, 500, Msg("Failed to remove bookmark"))
       ELSE R(b.S, 200, [bookmarked |-> FALSE]))

\* bookmarks.forEach(article => { article.isBookmarked = true;
\*                                article.isLiked = storage.isArticleLiked(...) })
\* The promise of isArticleLiked is stored, not awaited: it is written as
\* PromiseJson, and when it rejects nothing handles the rejection.
Get_bookmarks(S, user) ==
  Guarded(S, user,
    LET b == st_getUserBookmarks(S, user)
        marked == [i \in DOMAIN b.ret |->
                     Spread(b.ret[i], [isBookmarked |-> TRUE, isLiked |-> PromiseJson])]
    IN IF b.err THEN R(S, 500, Msg("Failed to fetch bookmarks"))
       ELSE [ R(S, 200, marked) EXCEPT
                !.unhandled = (b.ret # <<>> /\ st_isArticleLiked(S, user, b.ret[1].id).err) ])

\* POST /api/users/:id/follow without the comparison of follower and followed.
Post_users_id_follow_noSelfCheck(S, user, followingId) ==
  Guarded(S, user,
    LET g == st_getUser(S, followingId)
        f == st_followUser(S, [followerId |-> user, followingId |-> followingId])
        n == IF f.err THEN f ELSE st_getFollowerCount(f.S, followingId)
    IN IF g.err THEN R(S, 500, Msg("Failed to follow user"))
       ELSE IF ~IsDefined(g.ret) THEN R(S, 404, Msg("User not found"))
       ELSE IF n.err THEN R(n.S, 500, Msg("Failed to follow user"))
       ELSE R(n.S, 200, [following |-> TRUE, followerCount |-> n.ret]))

Post_users_id_follow(S, user, followingId) ==
  Guarded(S, user,
    LET g == st_getUser(S, followingId)
        f == st_followUser(S, [followerId |-> user, followingId |-> followingId])
        n == IF f.err THEN f ELSE st_getFollowerCount(f.S, followingId)
    IN IF user = followingId THEN R(S, 400, Msg("You cannot follow yourself"))
       ELSE IF g.err THEN R(S, 500, Msg("Failed to follow user"))
       ELSE IF ~IsDefined(g.ret) THEN R(S, 404, Msg("User not found"))
       ELSE IF n.err THEN R(n.S, 500, Msg("Failed to follow user"))
       ELSE R(n.S, 200, [following |-> TRUE, followerCount |-> n.ret]))

Delete_users_id_follow(S, user, followingId) ==
  Guarded(S, user,
    LET g == st_getUser(S, followingId)
        f == st_unfollowUser(S, user, followingId)
        n == IF f.err THEN f ELSE st_getFollowerCount(f.S, followingId)
    IN IF g.err THEN R(S, 500, Msg("Failed to unfollow user"))
       ELSE IF ~IsDefined(g.ret) THEN R(S, 404, Msg("User not found"))
       ELSE IF n.err THEN R(n.S, 500, Msg("Failed to unfollow user"))
       ELSE R(n.S, 200, [following |-> FALSE, followerCount |-> n.ret]))

NoOptions == [limit |-> Undefined, offset |-> Undefined, tag |-> Undefined,
              authorId |-> Undefined]

Get_users_id(S, user, userId) ==
  LET g == st_getUser(S, userId)
      a == st_getArticles(S, [NoOptions EXCEPT !.authorId = Some(userId)])
      fr == st_getFollowerCount(S, userId)
      fg == st_getFollowingCount(S, userId)
      isF == IF isAuthenticated(user) THEN st_isFollowing(S, user, userId)
             ELSE Ok(S, FALSE)
  IN IF g.err THEN R(S, 500, Msg("Failed to fetch user profile"))
     ELSE IF ~IsDefined(g.ret) THEN R(S, 404, Msg("User not found"))
     ELSE IF a.err \/ fr.err \/ fg.err \/ isF.err
          THEN R(S, 500, Msg("Failed to fetch user profile"))
     ELSE R(S, 200,
            Spread(Without(g.ret[1], "password"),
                   [ _count |-> [ articles |-> Len(a.ret), followers |-> fr.ret,
                                  following |-> fg.ret ],
                     isFollowing |-> isF.ret ]))

\* body: a subset of the fields username, password, bio; "" is falsy
Put_users_id(S, user, userId, body) ==
  Guarded(S, user,
    LET Truthy(k) == k \in DOMAIN body /\ body[k] # ""
        e == IF Truthy("username") /\ body.username # reqUser(S, user).username
             THEN st_getUserByUsername(S, body.username)
             ELSE Ok(S, Undefined)
        keys == {k \in {"username", "password"} : Truthy(k)} \cup ({"bio"} \cap DOMAIN body)
        updateData == [k \in keys |->
                         IF k = "password" THEN hashPassword(body[k]) ELSE body[k]]
        u == st_updateUser(S, userId, updateData)
    IN IF userId # user THEN R(S, 403, Msg("You can only update your own profile"))
       ELSE IF e.err THEN R(S, 500, Msg("Failed to update user profile"))
       ELSE IF IsDefined(e.ret) THEN R(S, 400, Msg("Username already exists"))
       ELSE IF u.err THEN R(u.S, 500, Msg("Failed to update user profile"))
       ELSE IF ~IsDefined(u.ret) THEN R(u.S, 404, Msg("User not found"))
       ELSE R(u.S, 200, Without(u.ret[1], "password")))

RECURSIVE MarkFollowing(_, _, _)
\* for (const author of authors) author.isFollowing = await storage.isFollowing(userId, author.id)
MarkFollowing(S, userId, authors) ==
  IF authors = <<>> THEN Ok(S, <<>>)
  ELSE LET f == st_isFollowing(S, userId, Head(authors).id)
           rest == MarkFollowing(S, userId, Tail(authors))
       IN IF f.err \/ rest.err THEN Rejected(S)
          ELSE Ok(S, <<Spread(Head(authors), [isFollowing |-> f.ret])>> \o rest.ret)

Get_authors_popular(S, user, limit) ==
  LET p == st_getPopularAuthors(S, OptOr(limit, AuthorsDefaultLimit))
      m == IF p.err THEN p
           ELSE IF isAuthenticated(user) THEN MarkFollowing(p.S, user, p.ret) ELSE p
  IN IF m.err THEN R(S, 500, Msg("Failed to fetch popular authors"))
     ELSE R(S, 200, [i \in DOMAIN m.ret |-> Without(m.ret[i], "password")])

(***************************************************************************)
(* Requests in flight.  A handler is suspended at each `await` and resumed *)
(* when the awaited promise settles; between the two, the handlers of      *)
(* other requests may run.  A request in flight is a record                *)
(* [rid, route, user, id, pc]: pc names the awaited call the handler is    *)
(* about to make.  A DatabaseStorage method is suspended at each of its    *)
(* statements.  A MemStorage method is taken as one step, except createTag *)
(* (see Tagged_await), which is suspended at its awaited getTagByName,     *)
(* between its look-up and its write.                                      *)
(***************************************************************************)
Continue(S, pc) == [S |-> S, pc |-> pc]

\* POST /api/articles/:id/like resumed at r.pc
Like_await(S, r) ==
  LET like == [userId |-> r.user, articleId |-> r.id]
      Failed(T) == R(T, 500, Msg("Failed to like article"))
      Found(a) == IF a.err THEN Failed(S)
                  ELSE IF ~IsDefined(a.ret) THEN R(S, 404, Msg("Article not found"))
                  ELSE Continue(S, "likeArticle")
      Liked(l) == IF l.err THEN Failed(l.S) ELSE Continue(l.S, "getLikeCount")
      Counted(n) == IF n.err THEN Failed(S)
                    ELSE R(S, 200, [liked |-> TRUE, likeCount |-> n.ret])
  IN CASE r.pc = "getArticle" -> Found(st_getArticle(S, r.id))
       [] r.pc = "likeArticle" ->
            IF Fails("likeArticle") THEN Failed(S)
            ELSE IF IsMem THEN Liked(Mem_likeArticle(S, like))
            ELSE IF IsDefined(Db_selectLike(S, r.user, r.id).ret)
                 THEN Continue(S, "getLikeCount")
            ELSE Continue(S, "likeArticle.insert")
       [] r.pc = "likeArticle.insert" -> Liked(Db_insertLike(S, like))
       [] r.pc = "getLikeCount" -> Counted(st_getLikeCount(S, r.id))

\* DELETE /api/articles/:id/like resumed at r.pc
Unlike_await(S, r) ==
  LET Failed(T) == R(T, 500, Msg("Failed to unlike article"))
      Found(a) == IF a.err THEN Failed(S)
                  ELSE IF ~IsDefined(a.ret) THEN R(S, 404, Msg("Article not found"))
                  ELSE Continue(S, "unlikeArticle")
      Unliked(l) == IF l.err THEN Failed(l.S) ELSE Continue(l.S, "getLikeCount")
      Counted(n) == IF n.err THEN Failed(S)
                    ELSE R(S, 200, [liked |-> FALSE, likeCount |-> n.ret])
  IN CASE r.pc = "getArticle" -> Found(st_getArticle(S, r.id))
       [] r.pc = "unlikeArticle" -> Unliked(st_unlikeArticle(S, r.user, r.id))
       [] r.pc = "getLikeCount" -> Counted(st_getLikeCount(S, r.id))

\* POST /api/articles/:id/comments resumed at r.pc
Comment_await(S, r) ==
  LET Failed(T) == R(T, 500, Msg("Failed to create comment"))
      Found(a) == IF a.err THEN Failed(S)
                  ELSE IF ~IsDefined(a.ret) THEN R(S, 404, Msg("Article not found"))
                  ELSE Continue(S, "createComment")
      Created(c) == IF c.err THEN Failed(c.S)
                    ELSE R(c.S, 201, Spread(c.ret, [author |-> reqUser(S, r.user)]))
  IN CASE r.pc = "getArticle" -> Found(st_getArticle(S, r.id))
       [] r.pc = "createComment" ->
            Created(st_createComment(S, [content |-> "hi", authorId |-> r.user,
                                         articleId |-> r.id]))

\* POST /api/articles/:id/bookmark resumed at r.pc
Bookmark_await(S, r) ==
  LET bookmark == [userId |-> r.user, articleId |-> r.id]
      Failed(T) == R(T, 500, Msg("Failed to bookmark article"))
      Found(a) == IF a.err THEN Failed(S)
                  ELSE IF ~IsDefined(a.ret) THEN R(S, 404, Msg("Article not found"))
                  ELSE Continue(S, "bookmarkArticle")
      Marked(b) == IF b.err THEN Failed(b.S) ELSE R(b.S, 200, [bookmarked |-> TRUE])
  IN CASE r.pc = "getArticle" -> Found(st_getArticle(S, r.id))
       [] r.pc = "bookmarkArticle" ->
            IF Fails("bookmarkArticle") THEN Failed(S)
            ELSE IF IsMem THEN Marked(Mem_bookmarkArticle(S, bookmark))
            ELSE IF Db_isArticleBookmarked(S, r.user, r.id).ret
                 THEN R(S, 200, [bookmarked |-> TRUE])
            ELSE Continue(S, "bookmarkArticle.insert")
       [] r.pc = "bookmarkArticle.insert" -> Marked(Db_insertBookmark(S, bookmark))

\* DELETE /api/articles/:id resumed at r.pc
DeleteArticle_await(S, r) ==
  LET Failed(T) == R(T, 500, Msg("Failed to delete article"))
      Found(a) ==
        IF a.err THEN Failed(S)
        ELSE IF ~IsDefined(a.ret) THEN R(S, 404, Msg("Article not found"))
        ELSE IF a.ret[1].authorId # r.user
             THEN R(S, 403, Msg("You are not authorized to delete this article"))
        ELSE Continue(S, "deleteArticle")
      Deleted(d) == IF d.err THEN Failed(d.S) ELSE R(d.S, 204, NoBody)
  IN CASE r.pc = "getArticle" -> Found(st_getArticle(S, r.id))
       [] r.pc = "deleteArticle" ->
            IF Fails("deleteArticle") THEN Failed(S)
            ELSE IF IsMem THEN Deleted(Mem_deleteArticle(S, r.id))
            ELSE Continue(Db_deleteArticleTags(S, r.id).S, "deleteArticle.comments")
       [] r.pc = "deleteArticle.comments" ->
            Continue(Db_deleteComments(S, r.id).S, "deleteArticle.likes")
       [] r.pc = "deleteArticle.likes" ->
            Continue(Db_deleteLikesOf(S, r.id).S, "deleteArticle.bookmarks")
       [] r.pc = "deleteArticle.bookmarks" ->
            Continue(Db_deleteBookmarks(S, r.id).S, "deleteArticle.articles")
       [] r.pc = "deleteArticle.articles" -> Deleted(Db_deleteArticleRow(S, r.id))

(***************************************************************************)
(* Initial state: the storage as its constructor leaves it (the sample     *)
(* tags created), with NumUsers users registered through createUser.       *)
(***************************************************************************)
initialTags == <<"AI", "CSS">>
Usernames == <<"ann", "bob", "cat", "dan">>

RECURSIVE WithTags(_, _)
\* initialTags.forEach(tagName => this.createTag({ name: tagName }))
WithTags(S, names) ==
  IF names = <<>> THEN S
  ELSE WithTags(Mem_createTag(S, [name |-> Head(names)]).S, Tail(names))

RECURSIVE WithUsers(_, _)
WithUsers(S, n) ==
  IF n = 0 THEN S
  ELSE LET S1 == WithUsers(S, n - 1)
       IN Mem_createUser(S1, [username |-> Usernames[n], password |-> "pw1"]).S

ConstructedStorage == WithUsers(WithTags(EmptyStorage, initialTags), Cardinality(UserIds))

NoResp == [op |-> "none"]

InitWith(backends) ==
  /\ storage = ConstructedStorage
  /\ backend \in backends
  /\ failing = {}
  /\ resp = NoResp
  /\ pending = {}
  /\ now = 0

(***************************************************************************)
(* IStorage methods called directly, one after another, with arbitrary     *)
(* arguments.                                                              *)
(***************************************************************************)
TagIds == 1..Len(initialTags)

Rows(S) ==
  Len(S.articleTagsData) + Cardinality(DOMAIN S.commentsData)
    + Cardinality(DOMAIN S.likesData) + Len(S.bookmarksData) + Len(S.followsData)
\* A child row may be added within the bound.
RoomFor(S) ==
  /\ Rows(S) < MaxRows
  /\ S.commentIdCounter <= MaxRows
  /\ S.likeIdCounter <= MaxRows

\* The call `op(arg)` has settled with r.
StoreCall(op, arg, r) ==
  /\ storage' = r.S
  /\ resp' = [op |-> op, arg |-> arg, ret |-> r.ret, err |-> r.err]
  /\ UNCHANGED <<backend, failing, pending, now>>

\* A call made to build up the storage: only its name and whether it
\* rejected are kept.
StoreSetup(op, r) ==
  /\ storage' = r.S
  /\ resp' = [op |-> op, err |-> r.err]
  /\ UNCHANGED <<backend, failing, pending, now>>

\* The author is a stored user or one that is not stored.
Store_createArticle ==
  \E authorId \in {1, GhostUser} :
    /\ storage.articleIdCounter \in ArticleIds
    /\ StoreSetup("createArticle",
                 st_createArticle(storage, [title |-> "t0", authorId |-> authorId]))

Store_getArticle ==
  \E id \in ArticleIds \cup {GhostArticle} :
    StoreCall("getArticle", id, st_getArticle(storage, id))

Store_deleteArticle ==
  \E id \in ArticleIds \cup {GhostArticle} :
    StoreCall("deleteArticle", id, st_deleteArticle(storage, id))

Store_addTagToArticle ==
  \E articleId \in ArticleIds, tagId \in TagIds :
    /\ RoomFor(storage)
    /\ StoreSetup("addTagToArticle",
                 st_addTagToArticle(storage, [articleId |-> articleId, tagId |-> tagId]))

Store_createComment ==
  \E authorId \in {1}, articleId \in ArticleIds :
    /\ RoomFor(storage)
    /\ StoreSetup("createComment",
                 st_createComment(storage,
                   [content |-> "c", authorId |-> authorId, articleId |-> articleId]))

Store_likeArticle ==
  \E userId \in UserIds, articleId \in ArticleIds :
    /\ RoomFor(storage)
    /\ StoreSetup("likeArticle",
                 st_likeArticle(storage, [userId |-> userId, articleId |-> articleId]))

Store_bookmarkArticle ==
  \E userId \in {1}, articleId \in ArticleIds :
    /\ RoomFor(storage)
    /\ StoreSetup("bookmarkArticle",
                 st_bookmarkArticle(storage, [userId |-> userId, articleId |-> articleId]))

StoreNext ==
  \/ Store_createArticle
  \/ Store_getArticle
  \/ Store_deleteArticle
  \/ Store_addTagToArticle
  \/ Store_createComment
  \/ Store_likeArticle
  \/ Store_bookmarkArticle

SpecStore == InitWith({"mem", "db"}) /\ [][StoreNext]_vars

\* ---- the calls of the uniqueness scenario, MemStorage only
Uniq_likeArticle ==
  \E userId \in UserIds, articleId \in ArticleIds :
    /\ RoomFor(storage)
    /\ StoreCall("likeArticle", <<userId, articleId>>,
                 Mem_likeArticle(storage, [userId |-> userId, articleId |-> articleId]))

Uniq_unlikeArticle ==
  \E userId \in UserIds, articleId \in ArticleIds :
    StoreSetup("unlikeArticle", Mem_unlikeArticle(storage, userId, articleId))

Uniq_followUser ==
  \E followerId \in UserIds, followingId \in UserIds :
    /\ RoomFor(storage)
    /\ StoreSetup("followUser",
         Mem_followUser(storage, [followerId |-> followerId, followingId |-> followingId]))

Uniq_unfollowUser ==
  \E followerId \in UserIds, followingId \in UserIds :
    StoreSetup("unfollowUser", Mem_unfollowUser(storage, followerId, followingId))

Uniq_bookmarkArticle ==
  \E userId \in UserIds, articleId \in ArticleIds :
    /\ RoomFor(storage)
    /\ StoreSetup("bookmarkArticle",
         Mem_bookmarkArticle(storage, [userId |-> userId, articleId |-> articleId]))

Uniq_unbookmarkArticle ==
  \E userId \in UserIds, articleId \in ArticleIds :
    StoreSetup("unbookmarkArticle", Mem_unbookmarkArticle(storage, userId, articleId))

Uniq_addTagToArticle ==
  \E articleId \in ArticleIds, tagId \in TagIds :
    /\ RoomFor(storage)
    /\ StoreSetup("addTagToArticle",
         Mem_addTagToArticle(storage, [articleId |-> articleId, tagId |-> tagId]))

Uniq_removeTagFromArticle ==
  \E articleId \in ArticleIds, tagId \in TagIds :
    StoreSetup("removeTagFromArticle", Mem_removeTagFromArticle(storage, articleId, tagId))

UniqueNext ==
  \/ Uniq_likeArticle
  \/ Uniq_unlikeArticle
  \/ Uniq_followUser
  \/ Uniq_unfollowUser
  \/ Uniq_bookmarkArticle
  \/ Uniq_unbookmarkArticle
  \/ Uniq_addTagToArticle
  \/ Uniq_removeTagFromArticle

SpecUnique == InitWith({"mem"}) /\ [][UniqueNext]_vars

(***************************************************************************)
(* Requests served one at a time: each action is one request, handled to   *)
(* its response.                                                           *)
(***************************************************************************)
Sessions == UserIds \cup {Anon}
ParamArticleIds == ArticleIds \cup {GhostArticle}
ParamUserIds == UserIds \cup {GhostUser}
EmptyBody == <<>>
PostBodies == {EmptyBody, [title |-> "t0"], [title |-> "t0", tags |-> <<"go">>]}
PutBodies == { [title |-> "t1"], [authorId |-> GhostUser], [id |-> 2],
               [tags |-> <<"CSS">>] }
CommentBodies == {EmptyBody, [content |-> "hi"]}

\* The request `route`, made by `user` with `arg`, was answered with h.
Respond(route, user, arg, h) ==
  /\ storage' = h.S
  /\ resp' = [ op |-> route, user |-> user, arg |-> arg, status |-> h.status,
               body |-> h.body, unhandled |-> h.unhandled ]
  /\ UNCHANGED <<backend, failing, pending, now>>

\* One action per route; the sessions, parameters and bodies of the requests
\* are drawn from the sets given.
Req_postArticle(users, bodies) ==
  \E user \in users, body \in bodies :
    /\ storage.articleIdCounter \in ArticleIds
    /\ Rows(storage) + (IF "tags" \in DOMAIN body THEN Len(body.tags) ELSE 0) <= MaxRows
    /\ Respond("POST /api/articles", user, [body |-> body],
               Post_articles(storage, user, body))

Req_putArticle(users, ids, bodies) ==
  \E user \in users, id \in ids, body \in bodies :
    /\ Rows(storage) + (IF "tags" \in DOMAIN body THEN Len(body.tags) ELSE 0) <= MaxRows
    /\ Respond("PUT /api/articles/:id", user, [id |-> id, body |-> body],
               Put_articles_id(storage, user, id, body))

Req_deleteArticle(users, ids) ==
  \E user \in users, id \in ids :
    Respond("DELETE /api/articles/:id", user, [id |-> id],
            Delete_articles_id(storage, user, id))

Req_postComment(users, ids, bodies) ==
  \E user \in users, id \in ids, body \in bodies :
    /\ RoomFor(storage)
    /\ Respond("POST /api/articles/:id/comments", user, [id |-> id, body |-> body],
               Post_articles_id_comments(storage, user, id, body))

Req_deleteComment(users, ids) ==
  \E user \in users, id \in ids :
    Respond("DELETE /api/comments/:id", user, [id |-> id],
            Delete_comments_id(storage, user, id))

Req_like(users, ids) ==
  \E user \in users, id \in ids :
    /\ RoomFor(storage)
    /\ Respond("POST /api/articles/:id/like", user, [id |-> id],
               Post_articles_id_like(storage, user, id))

Req_unlike(users, ids) ==
  \E user \in users, id \in ids :
    Respond("DELETE /api/articles/:id/like", user, [id |-> id],
            Delete_articles_id_like(storage, user, id))

Req_bookmark(users, ids) ==
  \E user \in users, id \in ids :
    /\ RoomFor(storage)
    /\ Respond("POST /api/articles/:id/bookmark", user, [id |-> id],
               Post_articles_id_bookmark(storage, user, id))

Req_unbookmark(users, ids) ==
  \E user \in users, id \in ids :
    Respond("DELETE /api/articles/:id/bookmark", user, [id |-> id],
            Delete_articles_id_bookmark(storage, user, id))

Req_getBookmarks(users) ==
  \E user \in users :
    Respond("GET /api/bookmarks", user, <<>>, Get_bookmarks(storage, user))

Req_follow(users, ids) ==
  \E user \in users, id \in ids :
    /\ RoomFor(storage)
    /\ Respond("POST /api/users/:id/follow", user, [id |-> id],
               Post_users_id_follow(storage, user, id))

Req_unfollow(users, ids) ==
  \E user \in users, id \in ids :
    Respond("DELETE /api/users/:id/follow", user, [id |-> id],
            Delete_users_id_follow(storage, user, id))

Req_putUser(users, ids, bodies) ==
  \E user \in users, id \in ids, body \in bodies :
    Respond("PUT /api/users/:id", user, [id |-> id, body |-> body],
            Put_users_id(storage, user, id, body))

Req_getArticles(users, queries) ==
  \E user \in users, query \in queries :
    Respond("GET /api/articles", user, [query |-> query],
            Get_articles(storage, user, query))

Req_getFeatured(users, limits) ==
  \E user \in users, limit \in limits :
    Respond("GET /api/articles/featured", user, [limit |-> limit],
            Get_articles_featured(storage, user, limit))

Req_getArticle(users, ids) ==
  \E user \in users, id \in ids :
    Respond("GET /api/articles/:id", user, [id |-> id],
            Get_articles_id(storage, user, id))

Req_getComments(users, ids) ==
  \E user \in users, id \in ids :
    Respond("GET /api/articles/:id/comments", user, [id |-> id],
            Get_articles_id_comments(storage, user, id))

Req_getUser(users, ids) ==
  \E user \in users, id \in ids :
    Respond("GET /api/users/:id", user, [id |-> id],
            Get_users_id(storage, user, id))

Req_getPopularAuthors(users, limits) ==
  \E user \in users, limit \in limits :
    Respond("GET /api/authors/popular", user, [limit |-> limit],
            Get_authors_popular(storage, user, limit))

\* ---- every route behind isAuthenticated, requested with and without a
\* session
GuardedNext ==
  \/ Req_postArticle({1, Anon}, {[title |-> "t0", tags |-> <<"go">>]})
  \/ Req_putArticle({1, Anon}, {1}, {[title |-> "t1"]})
  \/ Req_deleteArticle({1, Anon}, {1})
  \/ Req_postComment({2, Anon}, {1}, {[content |-> "hi"]})
  \/ Req_deleteComment({2, Anon}, {1})
  \/ Req_like({2, Anon}, {1})
  \/ Req_unlike({2, Anon}, {1})
  \/ Req_bookmark({2, Anon}, {1})
  \/ Req_unbookmark({2, Anon}, {1})
  \/ Req_getBookmarks({2, Anon})
  \/ Req_follow({1, Anon}, {2})
  \/ Req_unfollow({1, Anon}, {2})
  \/ Req_putUser({1, Anon}, {1}, {[username |-> "eve"]})

SpecGuarded == InitWith({"mem", "db"}) /\ [][GuardedNext]_vars

\* ---- articles changed and deleted by their author and by others
AuthzNext ==
  \/ Req_postArticle(UserIds, {[title |-> "t0"]})
  \/ Req_putArticle(UserIds, ParamArticleIds, PutBodies)
  \/ Req_deleteArticle(UserIds, ParamArticleIds)
  \/ Req_postComment({1}, {1}, {[content |-> "hi"]})
  \/ Req_like({2}, {1})
  \/ Req_bookmark({1}, {1})

SpecAuthz == InitWith({"mem", "db"}) /\ [][AuthzNext]_vars

\* ---- the routes that answer with view objects, after requests that fill
\* the storage
Queries == { NoOptions, [NoOptions EXCEPT !.limit = Some(1)],
             [NoOptions EXCEPT !.tag = Some("css")] }

ViewsNext ==
  \/ Req_postArticle({1}, {[title |-> "t0"]})
  \/ Req_putArticle({1}, {1}, {[id |-> 2], [tags |-> <<"CSS">>]})
  \/ Req_postComment({2}, {1}, {[content |-> "hi"]})
  \/ Req_like(UserIds, ArticleIds)
  \/ Req_bookmark({2}, ArticleIds)
  \/ Req_follow({1}, {2})
  \/ Req_putUser(Sessions, {1}, {[password |-> "pw2"]})
  \/ Req_getArticles(Sessions, Queries)
  \/ Req_getFeatured(Sessions, {Undefined, Some(1)})
  \/ Req_getArticle(Sessions, ParamArticleIds)
  \/ Req_getComments({Anon}, ParamArticleIds)
  \/ Req_getBookmarks(Sessions)
  \/ Req_getUser({2, Anon}, ParamUserIds)
  \/ Req_getPopularAuthors({1, Anon}, {Undefined, Some(1)})

SpecViews == InitWith({"mem", "db"}) /\ [][ViewsNext]_vars

\* ---- requests served while a storage method rejects
FailingMethods ==
  { "getArticle", "getArticles", "createArticle", "likeArticle", "getLikeCount",
    "bookmarkArticle", "getUserBookmarks", "isArticleLiked", "isArticleBookmarked" }

\* The database starts or stops refusing the statements of one method.
Fault ==
  \E f \in {{}} \cup {{m} : m \in FailingMethods} :
    /\ f # failing
    /\ failing' = f
    /\ UNCHANGED <<storage, backend, resp, pending, now>>

FaultNext ==
  \/ Fault
  \/ Req_postArticle({1}, {[title |-> "t0"]})
  \/ Req_like({2}, {1})
  \/ Req_bookmark({2}, {1})
  \/ Req_getArticles({2}, {NoOptions})
  \/ Req_getArticle({2, Anon}, {1})
  \/ Req_getBookmarks({2})

SpecFault == InitWith({"db"}) /\ [][FaultNext]_vars

\* ---- requests in flight together
FreeRid == CHOOSE n \in 1..MaxInFlight : \A q \in pending : q.rid # n

\* A request arrives and its handler is entered.
Receive(routes, users, ids) ==
  \E route \in routes, user \in users, id \in ids :
    /\ Cardinality(pending) < MaxInFlight
    /\ pending' = pending \cup {[ rid |-> FreeRid, route |-> route, user |-> user,
                                  id |-> id, pc |-> "getArticle" ]}
    /\ UNCHANGED <<storage, backend, failing, resp, now>>

\* The awaited promise of r settled with h: r is suspended at its next
\* await, or has sent its response.
Settle(r, h) ==
  /\ storage' = h.S
  /\ IF "status" \in DOMAIN h
     THEN /\ pending' = pending \ {r}
          /\ resp' = [ op |-> r.route, user |-> r.user, arg |-> [id |-> r.id],
                       status |-> h.status, body |-> h.body,
                       unhandled |-> h.unhandled ]
     ELSE /\ pending' = (pending \ {r}) \cup {[r EXCEPT !.pc = h.pc]}
          /\ resp' = resp
  /\ UNCHANGED <<backend, failing, now>>

\* The step at r.pc adds no row, or there is room for one.
Bounded(r, adding) == r.pc \in adding => RoomFor(storage)

Resume_like ==
  \E r \in pending :
    /\ r.route = "POST /api/articles/:id/like"
    /\ Bounded(r, {"likeArticle", "likeArticle.insert"})
    /\ Settle(r, Like_await(storage, r))

Resume_unlike ==
  \E r \in pending :
    /\ r.route = "DELETE /api/articles/:id/like"
    /\ Settle(r, Unlike_await(storage, r))

Resume_comment ==
  \E r \in pending :
    /\ r.route = "POST /api/articles/:id/comments"
    /\ Bounded(r, {"createComment"})
    /\ Settle(r, Comment_await(storage, r))

Resume_bookmark ==
  \E r \in pending :
    /\ r.route = "POST /api/articles/:id/bookmark"
    /\ Bounded(r, {"bookmarkArticle", "bookmarkArticle.insert"})
    /\ Settle(r, Bookmark_await(storage, r))

Resume_deleteArticle ==
  \E r \in pending :
    /\ r.route = "DELETE /api/articles/:id"
    /\ Settle(r, DeleteArticle_await(storage, r))

\* like and unlike requests of one user for one article, DatabaseStorage
LikesNext ==
  \/ Req_postArticle({1}, {[title |-> "t0"]})
  \/ Receive({"POST /api/articles/:id/like", "DELETE /api/articles/:id/like"}, {2}, {1})
  \/ Resume_like
  \/ Resume_unlike

SpecLikes == InitWith({"db"}) /\ [][LikesNext]_vars

\* requests that add rows to an article while it is deleted, MemStorage
InFlightNext ==
  \/ Req_postArticle({1}, {[title |-> "t0", tags |-> <<"go">>]})
  \/ Receive({"POST /api/articles/:id/like", "POST /api/articles/:id/comments",
              "POST /api/articles/:id/bookmark"}, {2}, {1})
  \/ Receive({"DELETE /api/articles/:id"}, {1}, {1})
  \/ Resume_like
  \/ Resume_comment
  \/ Resume_bookmark
  \/ Resume_deleteArticle

SpecInFlight == InitWith({"mem"}) /\ [][InFlightNext]_vars

(***************************************************************************)
(* Properties of the storage methods.                                      *)
(***************************************************************************)
LikesOf(S, id) == {k \in DOMAIN S.likesData : S.likesData[k].articleId = id}
CommentsOf(S, id) == {k \in DOMAIN S.commentsData : S.commentsData[k].articleId = id}
TagIdsOf(S, id) == {at.tagId : at \in {x \in Range(S.articleTagsData) : x.articleId = id}}
BookmarksOf(S, id) == {i \in DOMAIN S.bookmarksData : S.bookmarksData[i].articleId = id}
HasRowsOf(S, id) ==
  \/ LikesOf(S, id) # {} \/ CommentsOf(S, id) # {}
  \/ TagIdsOf(S, id) # {} \/ BookmarksOf(S, id) # {}

\* T is S with article id and every row that refers to it removed, and
\* nothing else changed.
IsCascade(S, T, id) ==
  /\ T.articlesData = MapDelete(S.articlesData, id)
  /\ ~HasRowsOf(T, id)
  /\ T.articleTagsData = SelectSeq(S.articleTagsData, LAMBDA at : at.articleId # id)
  /\ T.bookmarksData = SelectSeq(S.bookmarksData, LAMBDA b : b.articleId # id)
  /\ T.commentsData = [k \in (DOMAIN S.commentsData) \ CommentsOf(S, id) |-> S.commentsData[k]]
  /\ T.likesData = [k \in (DOMAIN S.likesData) \ LikesOf(S, id) |-> S.likesData[k]]
  /\ T.usersData = S.usersData /\ T.tagsData = S.tagsData
  /\ T.followsData = S.followsData
  /\ T.articleIdCounter = S.articleIdCounter /\ T.tagIdCounter = S.tagIdCounter
  /\ T.commentIdCounter = S.commentIdCounter /\ T.likeIdCounter = S.likeIdCounter
  /\ T.userIdCounter = S.userIdCounter

\* C2: a deleteArticle(id) call that runs alone resolves; it returns true
\* exactly when the article was stored, and then the article and every article
\* tag, comment, like and bookmark of it are gone while all other rows are as
\* before; on an id that is not stored it returns false and changes nothing.
\* MemStorage and DatabaseStorage alike.
C2_CascadeDelete ==
  [][ resp'.op = "deleteArticle" =>
        /\ ~resp'.err
        /\ resp'.ret = (resp'.arg \in DOMAIN storage.articlesData)
        /\ resp'.ret => IsCascade(storage, storage', resp'.arg)
        /\ ~resp'.ret => storage' = storage ]_vars

\* deleteArticle returned true, rows it had to cascade are gone (an id was
\* handed out to a like or comment that is no longer stored) and a row of
\* another article is still there.
C2_Witness ==
  /\ resp.op = "deleteArticle" /\ resp.ret = TRUE
  /\ \/ storage.likeIdCounter > 1 + Cardinality(DOMAIN storage.likesData)
     \/ storage.commentIdCounter > 1 + Cardinality(DOMAIN storage.commentsData)
  /\ \E id \in ArticleIds : id # resp.arg /\ HasRowsOf(storage, id)

NoTwo(s, f, g) ==
  \A i, j \in DOMAIN s : (s[i][f] = s[j][f] /\ s[i][g] = s[j][g]) => i = j

\* C10: after any sequence of likeArticle, followUser, bookmarkArticle and
\* addTagToArticle calls made one after another on MemStorage, with unlike,
\* unfollow, unbookmark and removeTagFromArticle calls in between, no two
\* likes share (userId, articleId), no two bookmarks share (userId, articleId),
\* no two follows share (followerId, followingId) and no two article tags
\* share (articleId, tagId).
C10_MemUnique ==
  /\ \A k1, k2 \in DOMAIN storage.likesData :
       ( /\ storage.likesData[k1].userId = storage.likesData[k2].userId
         /\ storage.likesData[k1].articleId = storage.likesData[k2].articleId ) => k1 = k2
  /\ NoTwo(storage.bookmarksData, "userId", "articleId")
  /\ NoTwo(storage.followsData, "followerId", "followingId")
  /\ NoTwo(storage.articleTagsData, "articleId", "tagId")

\* likeArticle was called for a pair that is already liked (it returned the
\* stored like, not one with the newest id) while another store holds a row
\* too.
C10_Witness ==
  /\ resp.op = "likeArticle"
  /\ resp.ret.id # storage.likeIdCounter - 1
  /\ Rows(storage) > Cardinality(DOMAIN storage.likesData)


(***************************************************************************)
(* Properties of the route handlers.                                       *)
(***************************************************************************)
\* C5: a request without an authenticated session to a route behind
\* isAuthenticated is answered 401 with the message "Authentication required"
\* and leaves the whole storage (every store and every id counter) as it was.
C5_UnauthenticatedRefused ==
  [][ resp'.user = Anon =>
        /\ resp'.status = 401
        /\ resp'.body = Msg("Authentication required")
        /\ storage' = storage ]_vars

\* An unauthenticated DELETE of a stored article that has rows of its own.
C5_Witness ==
  /\ resp.op = "DELETE /api/articles/:id"
  /\ resp.user = Anon
  /\ resp.status = 401
  /\ resp.arg.id \in DOMAIN storage.articlesData
  /\ HasRowsOf(storage, resp.arg.id)


ChangesArticle(r) ==
  r.op \in {"PUT /api/articles/:id", "DELETE /api/articles/:id"} /\ r.user # Anon

\* C4: PUT and DELETE /api/articles/:id by an authenticated user who is not
\* the article's author are answered 403, on an id that is not stored 404,
\* and in both cases nothing in the storage changes.
C4_OnlyAuthorChanges ==
  [][ ChangesArticle(resp') =>
        LET id == resp'.arg.id
            stored == id \in DOMAIN storage.articlesData
        IN /\ (stored /\ storage.articlesData[id].authorId # resp'.user)
                => (resp'.status = 403 /\ storage' = storage)
           /\ (~stored) => (resp'.status = 404 /\ storage' = storage) ]_vars

\* The part of C4 that holds: a PUT or DELETE that is refused, or made by a
\* user who is not the stored author, changes nothing in the storage.
C4_RefusedChangesNothing ==
  [][ ChangesArticle(resp') =>
        LET id == resp'.arg.id
            stored == id \in DOMAIN storage.articlesData
        IN /\ resp'.status \in {403, 404} => storage' = storage
           /\ (stored /\ storage.articlesData[id].authorId # resp'.user)
                => (resp'.status \in {403, 404} /\ storage' = storage)
           /\ (~stored) => resp'.status = 404 ]_vars


\* The storage with every stored password replaced by the same value.
Scrub(S) ==
  [S EXCEPT !.usersData = [k \in DOMAIN @ |-> [@[k] EXCEPT !.password = "***"]]]

\* The response of the routes that C6 names to request r on storage S.
Answer(S, r) ==
  CASE r.op = "GET /api/articles" -> Get_articles(S, r.user, r.arg.query)
    [] r.op = "GET /api/articles/featured" -> Get_articles_featured(S, r.user, r.arg.limit)
    [] r.op = "GET /api/articles/:id" -> Get_articles_id(S, r.user, r.arg.id)
    [] r.op = "GET /api/articles/:id/comments" ->
         Get_articles_id_comments(S, r.user, r.arg.id)
    [] r.op = "GET /api/bookmarks" -> Get_bookmarks(S, r.user)
    [] r.op = "GET /api/users/:id" -> Get_users_id(S, r.user, r.arg.id)
    [] r.op = "GET /api/authors/popular" -> Get_authors_popular(S, r.user, r.arg.limit)
    [] r.op = "PUT /api/users/:id" -> Put_users_id(S, r.user, r.arg.id, r.arg.body)

PasswordFreeRoutes ==
  { "GET /api/articles", "GET /api/articles/featured", "GET /api/articles/:id",
    "GET /api/articles/:id/comments", "GET /api/bookmarks", "GET /api/users/:id",
    "GET /api/authors/popular", "PUT /api/users/:id" }

\* C6: the response body of each of these routes is the same on two storages
\* that differ only in the stored passwords: the request answered on the
\* storage is answered alike on the storage with the passwords scrubbed.
C6_ResponsesIgnorePasswords ==
  [][ resp'.op \in PasswordFreeRoutes =>
        Answer(Scrub(storage), resp').body = resp'.body ]_vars

ArticleRoutes ==
  {"GET /api/articles", "GET /api/articles/featured", "GET /api/articles/:id"}

LikeStored(S, user, id) ==
  \E k \in DOMAIN S.likesData :
    S.likesData[k].userId = user /\ S.likesData[k].articleId = id
BookmarkStored(S, user, id) ==
  \E i \in DOMAIN S.bookmarksData :
    S.bookmarksData[i].userId = user /\ S.bookmarksData[i].articleId = id

\* C8: every article returned by GET /api/articles, /api/articles/featured
\* and /api/articles/:id to an authenticated user has isLiked and
\* isBookmarked true exactly when that user's like, respectively bookmark, of
\* the returned article is stored; without a session neither flag is set.
C8_PerUserFlags ==
  (resp.op \in ArticleRoutes /\ resp.status = 200) =>
    LET returned == IF resp.op = "GET /api/articles/:id" THEN <<resp.body>>
                    ELSE resp.body
    IN \A i \in DOMAIN returned :
         IF resp.user = Anon
         THEN {"isLiked", "isBookmarked"} \cap DOMAIN returned[i] = {}
         ELSE /\ returned[i].isLiked = LikeStored(storage, resp.user, returned[i].id)
              /\ returned[i].isBookmarked = BookmarkStored(storage, resp.user, returned[i].id)


\* The generic message of a route's catch block.
FailureMessage(op) ==
  CASE op = "GET /api/articles" -> "Failed to fetch articles"
    [] op = "GET /api/articles/:id" -> "Failed to fetch article"
    [] op = "POST /api/articles" -> "Failed to create article"
    [] op = "POST /api/articles/:id/like" -> "Failed to like article"
    [] op = "POST /api/articles/:id/bookmark" -> "Failed to bookmark article"
    [] op = "GET /api/bookmarks" -> "Failed to fetch bookmarks"

\* The request r, as it was answered, invoked storage method m.
InvokedLate(r, m) ==
  /\ r.op = "GET /api/bookmarks"
  /\ m = "isArticleLiked"
  /\ r.status = 200
  /\ r.body # <<>>

\* C9: a request during which a storage method rejects is answered 500 with
\* the route's generic message; no rejection is left unhandled, and none
\* arrives after a success response was sent.
C9_FailuresAnswered500 ==
  resp.op # "none" =>
    /\ resp.status = 500 => resp.body = Msg(FailureMessage(resp.op))
    /\ ~resp.unhandled
    /\ \A m \in failing : ~InvokedLate(resp, m)


\* C1: with DatabaseStorage, in every reachable state no two like rows have
\* the same (userId, articleId), however POST and DELETE
\* /api/articles/:id/like requests are interleaved.
C1_OneLikePerPair ==
  backend = "db" =>
    \A k1, k2 \in DOMAIN storage.likesData :
      (/\ storage.likesData[k1].userId = storage.likesData[k2].userId
       /\ storage.likesData[k1].articleId = storage.likesData[k2].articleId)
        => k1 = k2

\* C3: with MemStorage, in every reachable state every stored comment, like,
\* bookmark and article tag refers to an article of the article store,
\* however the handlers are interleaved at their awaits.
C3_ReferentialIntegrity ==
  backend = "mem" =>
    LET stored == DOMAIN storage.articlesData
    IN /\ \A k \in DOMAIN storage.commentsData : storage.commentsData[k].articleId \in stored
       /\ \A k \in DOMAIN storage.likesData : storage.likesData[k].articleId \in stored
       /\ \A i \in DOMAIN storage.bookmarksData :
            storage.bookmarksData[i].articleId \in stored
       /\ \A i \in DOMAIN storage.articleTagsData :
            storage.articleTagsData[i].articleId \in stored

\* ---------------------------------------------------------------------------
\* Following: POST and DELETE /api/users/:id/follow by every registered user,
\* on every registered user and on an id that is not stored, and the profiles
\* that report the follows.
FollowsNext ==
  \/ Req_follow(UserIds, ParamUserIds)
  \/ Req_unfollow(UserIds, ParamUserIds)
  \/ Req_getUser(Sessions, ParamUserIds)

SpecFollows == InitWith({"mem", "db"}) /\ [][FollowsNext]_vars

\* C11: no stored follow has followerId = followingId; POST
\* /api/users/:id/follow on oneself is answered 400 'You cannot follow
\* yourself', on an id that is not stored 404, and both leave the follows as
\* they were.
C11_NoSelfFollow ==
  /\ [](\A k \in DOMAIN storage.followsData :
          storage.followsData[k].followerId # storage.followsData[k].followingId)
  /\ [][ resp'.op = "POST /api/users/:id/follow" =>
           /\ resp'.user = resp'.arg.id =>
                /\ resp'.status = 400
                /\ resp'.body = Msg("You cannot follow yourself")
                /\ storage'.followsData = storage.followsData
           /\ resp'.arg.id \notin DOMAIN storage.usersData =>
                /\ resp'.status = 404
                /\ storage'.followsData = storage.followsData ]_vars

\* A user who follows someone asked to follow themself and was refused.
C11_Witness ==
  /\ resp.op = "POST /api/users/:id/follow"
  /\ resp.user = resp.arg.id
  /\ resp.status = 400
  /\ \E k \in DOMAIN storage.followsData :
       storage.followsData[k].followerId = resp.user

\* C12: a PUT /api/articles/:id request, whatever its body, leaves every
\* stored article under its key with the id (equal to the key), the authorId
\* and the createdAt it had before.
C12_IdentityFieldsKept ==
  [][ resp'.op = "PUT /api/articles/:id" =>
        \A k \in DOMAIN storage.articlesData :
          /\ k \in DOMAIN storage'.articlesData
          /\ storage'.articlesData[k].id = k
          /\ storage'.articlesData[k].authorId = storage.articlesData[k].authorId
          /\ storage'.articlesData[k].createdAt = storage.articlesData[k].createdAt ]_vars

\* ---------------------------------------------------------------------------
\* Creating articles: request bodies with and without a title, with an
\* authorId of their own, and with tags that are strings or null.
CreateBodies ==
  { EmptyBody, [title |-> Null], [title |-> "t0"],
    [title |-> "t0", authorId |-> 2], [title |-> "t0", authorId |-> GhostUser],
    [title |-> "t0", tags |-> <<"go">>], [title |-> "t0", tags |-> <<Null>>],
    [title |-> "t0", authorId |-> 1, tags |-> <<"ai", "go">>] }

CreateNext ==
  \/ Req_postArticle(Sessions, CreateBodies)
  \/ Req_getArticle(Sessions, ParamArticleIds)

SpecCreate == InitWith({"mem", "db"}) /\ [][CreateNext]_vars

\* C13: every article a POST /api/articles request stores has the authorId of
\* the session's user, whatever authorId the request body carries.
C13_AuthorIsSessionUser ==
  [][ resp'.op = "POST /api/articles" =>
        /\ \A k \in DOMAIN storage'.articlesData \ DOMAIN storage.articlesData :
             storage'.articlesData[k].authorId = resp'.user
        /\ resp'.status = 201 =>
             /\ storage.articleIdCounter \in DOMAIN storage'.articlesData
             /\ resp'.body.authorId = resp'.user ]_vars

\* An article was created from a body that names another user as its author.
C13_Witness ==
  /\ resp.op = "POST /api/articles"
  /\ resp.status = 201
  /\ "authorId" \in DOMAIN resp.arg.body
  /\ resp.arg.body.authorId # resp.user
  /\ resp.body.id \in DOMAIN storage.articlesData

\* C14: a POST /api/articles request answered with a status other than 201
\* has added no article to the article store.
C14_NoArticleUnless201 ==
  [][ (resp'.op = "POST /api/articles" /\ resp'.status # 201) =>
        storage'.articlesData = storage.articlesData ]_vars

\* ---------------------------------------------------------------------------
\* Profiles: one user publishes up to MaxArticles articles, users follow each
\* other, and the profiles are read.
MaxArticles == 11

Req_publish(users, bodies, most) ==
  \E user \in users, body \in bodies :
    /\ storage.articleIdCounter <= most
    /\ Rows(storage) + (IF "tags" \in DOMAIN body THEN Len(body.tags) ELSE 0) <= MaxRows
    /\ Respond("POST /api/articles", user, [body |-> body],
               Post_articles(storage, user, body))

StatsNext ==
  \/ Req_publish({1}, {[title |-> "t0"]}, MaxArticles)
  \/ Req_follow(UserIds, UserIds)
  \/ Req_unfollow({2}, {1})
  \/ Req_getUser(Sessions, ParamUserIds)

SpecStats == InitWith({"mem", "db"}) /\ [][StatsNext]_vars

\* C15: the _count of GET /api/users/:id is the number of stored articles of
\* that author, the number of follows of that user and the number of
\* follows by that user.
C15_ExactStatistics ==
  [][ (resp'.op = "GET /api/users/:id" /\ resp'.status = 200) =>
        LET id == resp'.arg.id
            S == storage'
        IN /\ resp'.body._count.articles =
                Cardinality({k \in DOMAIN S.articlesData : S.articlesData[k].authorId = id})
           /\ resp'.body._count.followers =
                Cardinality({i \in DOMAIN S.followsData : S.followsData[i].followingId = id})
           /\ resp'.body._count.following =
                Cardinality({i \in DOMAIN S.followsData : S.followsData[i].followerId = id})
    ]_vars

\* C16: GET /api/bookmarks returns exactly the stored articles the session's
\* user has bookmarked, each with isBookmarked = true and with isLiked the
\* boolean 'this user has a stored like for this article' (and so not the
\* serialised promise).
C16_BookmarksWithFlags ==
  [][ (resp'.op = "GET /api/bookmarks" /\ resp'.status = 200) =>
        LET S == storage'
            user == resp'.user
            body == resp'.body
        IN /\ {body[i].id : i \in DOMAIN body} =
                {k \in DOMAIN S.articlesData : BookmarkStored(S, user, k)}
           /\ \A i \in DOMAIN body :
                /\ body[i].isBookmarked = TRUE
                /\ body[i].isLiked # PromiseJson
                /\ body[i].isLiked = LikeStored(S, user, body[i].id) ]_vars

\* ---------------------------------------------------------------------------
\* Listing: up to MaxListed articles are published, each at a later instant
\* than the ones before it, and getArticles of both storages is called on the
\* stored data with the same options.
MaxListed == 3

\* Every stored article was created before the current instant.
Fresh ==
  \A k \in DOMAIN storage.articlesData : storage.articlesData[k].createdAt < now

\* new Date() moves on
Tick ==
  /\ ~Fresh
  /\ now' = now + 1
  /\ UNCHANGED <<storage, backend, failing, resp, pending>>

ListOptions ==
  [ limit : {Undefined, Some(-1), Some(1), Some(2)},
    offset : {Undefined, Some(1), Some(2)},
    tag : {Undefined, Some("ai"), Some("zz")},
    authorId : {Undefined, Some(1)} ]

ArticleIdsOf(views) == [i \in DOMAIN views |-> views[i].id]

List_getArticles(optionSet) ==
  \E options \in optionSet :
    LET m == Mem_getArticles(storage, options)
        d == Db_getArticles(storage, options)
    IN /\ resp' = [ op |-> "getArticles", user |-> Anon, arg |-> options,
                    status |-> 0, unhandled |-> FALSE,
                    body |-> [ mem |-> ArticleIdsOf(m.ret), db |-> ArticleIdsOf(d.ret),
                               dbErr |-> d.err ] ]
       /\ UNCHANGED <<storage, backend, failing, pending, now>>

ListingNext ==
  \/ (Fresh /\ Req_publish(UserIds, {[title |-> "t0"], [title |-> "t0", tags |-> <<"AI">>]},
                           MaxListed))
  \/ Tick
  \/ List_getArticles(ListOptions)

SpecListing == InitWith({"mem", "db"}) /\ [][ListingNext]_vars

\* C17: for the same stored data and the same options (limit and offset not
\* negative), DatabaseStorage.getArticles returns the same sequence of article
\* ids as MemStorage.getArticles.
C17_ListingsAgree ==
  [][ (/\ resp'.op = "getArticles"
       /\ OptOr(resp'.arg.limit, DefaultLimit) >= 0
       /\ OptOr(resp'.arg.offset, 0) >= 0)
      => (~resp'.body.dbErr /\ resp'.body.db = resp'.body.mem) ]_vars

\* The article matches the author filter and the case-insensitive tag filter.
Matches(S, a, o) ==
  /\ IsDefined(o.authorId) => a.authorId = o.authorId[1]
  /\ IsDefined(o.tag) =>
       \E i \in DOMAIN S.articleTagsData, t \in DOMAIN S.tagsData :
         /\ S.articleTagsData[i].articleId = a.id
         /\ S.articleTagsData[i].tagId = S.tagsData[t].id
         /\ toLowerCase(S.tagsData[t].name) = toLowerCase(o.tag[1])

Matching(S, o) == {k \in DOMAIN S.articlesData : Matches(S, S.articlesData[k], o)}

\* The ids MemStorage.getArticles returns for the page of size limit at offset.
MemPage(S, o, limit, offset) ==
  Range(ArticleIdsOf(Mem_getArticles(S,
          [o EXCEPT !.limit = Some(limit), !.offset = Some(offset)]).ret))

\* The result r of getArticles(o) on S holds the matching articles at
\* positions offset .. offset + limit - 1 of the list ordered newest first.
IsPageOf(S, o, r) ==
  LET limit == OptOr(o.limit, DefaultLimit)
      offset == OptOr(o.offset, 0)
      M == Matching(S, o)
      Newer(k) == {m \in M : S.articlesData[m].createdAt > S.articlesData[k].createdAt}
      rest == IF Cardinality(M) > offset THEN Cardinality(M) - offset ELSE 0
  IN /\ \A i \in DOMAIN r : r[i] \in M /\ Cardinality(Newer(r[i])) = offset + i - 1
     \* never more than limit of them: the positions offset .. offset+limit-1
     \* that exist, none when limit is not positive
     /\ Len(r) = (IF limit < 0 THEN 0 ELSE IF limit < rest THEN limit ELSE rest)
     /\ (IsDefined(o.tag) /\ \A t \in DOMAIN S.tagsData :
            toLowerCase(S.tagsData[t].name) # toLowerCase(o.tag[1])) => r = <<>>

\* The filters of ListOptions, without a page.
ListFilters == {o \in ListOptions : o.limit = Undefined /\ o.offset = Undefined}

\* Consecutive pages (offset = 0, limit, 2*limit, ...) are disjoint and
\* together hold every matching article.
PagesPartition ==
  \A o \in ListFilters : \A limit \in {1, 2} :
    /\ UNION {MemPage(storage, o, limit, p * limit) : p \in 0 .. MaxListed}
         = Matching(storage, o)
    /\ \A p, q \in 0 .. MaxListed :
         p # q => MemPage(storage, o, limit, p * limit)
                    \cap MemPage(storage, o, limit, q * limit) = {}

\* C18: MemStorage.getArticles returns the articles matching the author and
\* tag filters at positions offset .. offset+limit-1 of the list ordered by
\* createdAt, newest first, never more than limit of them; consecutive pages
\* are disjoint and together hold every matching article; a tag name that
\* matches no stored tag yields the empty list.
C18_MemListing ==
  /\ [][ resp'.op = "getArticles" => IsPageOf(storage', resp'.arg, resp'.body.mem) ]_vars
  /\ []PagesPartition

\* The part of C18 that holds: with a limit that is not negative the result
\* is the page of the claim, and pages of a positive size are disjoint and
\* together hold every matching article.
C18_PagesOfNaturalLimits ==
  /\ [][ (resp'.op = "getArticles" /\ OptOr(resp'.arg.limit, DefaultLimit) >= 0)
         => IsPageOf(storage', resp'.arg, resp'.body.mem) ]_vars
  /\ []PagesPartition

\* ---------------------------------------------------------------------------
\* Featured articles of DatabaseStorage: articles published at different
\* instants, liked by the registered users, and GET /api/articles/featured.
FeaturedNext ==
  \/ (Fresh /\ Req_publish({1}, {[title |-> "t0"]}, MaxListed))
  \/ Tick
  \/ Req_like(UserIds, 1 .. MaxListed)
  \/ Req_getFeatured({Anon}, {Undefined, Some(1), Some(2)})

SpecFeatured == InitWith({"db"}) /\ [][FeaturedNext]_vars

LikesIn(S, id) == Cardinality({k \in DOMAIN S.likesData : S.likesData[k].articleId = id})

\* C19: DatabaseStorage.getFeaturedArticles(limit) returns min(limit, number
\* of stored articles) distinct articles: the liked ones first, in
\* non-increasing like count, then the most recent of the others.
C19_FeaturedFilledUp ==
  [][ (resp'.op = "GET /api/articles/featured" /\ resp'.status = 200) =>
        LET r == resp'.body
            S == storage'
            limit == OptOr(resp'.arg.limit, FeaturedDefaultLimit)
            stored == Cardinality(DOMAIN S.articlesData)
        IN /\ Len(r) = (IF limit < stored THEN limit ELSE stored)
           /\ \A i, j \in DOMAIN r : i < j =>
                /\ r[i].id # r[j].id
                /\ LikesIn(S, r[i].id) >= LikesIn(S, r[j].id)
                /\ (LikesIn(S, r[i].id) = 0 /\ LikesIn(S, r[j].id) = 0)
                     => r[i].createdAt >= r[j].createdAt
           /\ \A i \in DOMAIN r : \A k \in DOMAIN S.articlesData :
                (\A j \in DOMAIN r : r[j].id # k) =>
                  \/ LikesIn(S, k) < LikesIn(S, r[i].id)
                  \/ /\ LikesIn(S, k) = LikesIn(S, r[i].id)
                     /\ (LikesIn(S, k) > 0
                           \/ S.articlesData[k].createdAt <= r[i].createdAt) ]_vars

(***************************************************************************)
(* Tags created by requests in flight.  A request in flight that gets or   *)
(* creates one tag is a record [rid, route, user, name, pc, article, tag]: *)
(* name is the tag name of the request, article and tag are the ids the    *)
(* handler has obtained so far.  The route "createTag" is a call of        *)
(* storage.createTag on its own.                                           *)
(***************************************************************************)
\* The outcome of a call that is no HTTP request (status 0): the value its
\* promise resolved with, or a rejection that no handler catches.
Resolved(S, value) == R(S, 0, value)
Thrown(S) == [R(S, 0, NoBody) EXCEPT !.unhandled = TRUE]

\* The handler of r resumed at r.pc: the awaited calls of POST /api/articles
\* with one tag name, createTag split at its await.
Tagged_await(S, r) ==
  LET alone == r.route = "createTag"
      Failed(T) == IF alone THEN Thrown(T)
                   ELSE R(T, 500, Msg("Failed to create article"))
      Next(T, pc, article, tag) == [S |-> T, pc |-> pc, article |-> article, tag |-> tag]
      Having(T, tag) == IF alone THEN Resolved(T, tag)
                        ELSE Next(T, "addTagToArticle", r.article, tag.id)
      Created(c) == IF c.err THEN Failed(c.S)
                    ELSE Next(c.S, "getTagByName", c.ret.id, 0)
      Looked(g) == IF g.err THEN Failed(S)
                   ELSE IF IsDefined(g.ret) THEN Having(S, g.ret[1])
                   ELSE Next(S, "createTag", r.article, 0)
      Checked(e) == IF e.err THEN Failed(S)
                    ELSE IF IsDefined(e.ret) THEN Having(S, e.ret[1])
                    ELSE Next(S, "createTag.insert", r.article, 0)
      Inserted(n) == IF n.err THEN Failed(n.S) ELSE Having(n.S, n.ret)
      Added(a) == IF a.err THEN Failed(a.S)
                  ELSE Next(a.S, "getArticle", r.article, r.tag)
      Fetched(f) == IF f.err THEN Failed(S) ELSE R(S, 201, JsonOf(f.ret))
  IN CASE r.pc = "createArticle" ->
            Created(st_createArticle(S, [title |-> "t0", authorId |-> r.user]))
       [] r.pc = "getTagByName" -> Looked(st_getTagByName(S, r.name))
       [] r.pc = "createTag" ->
            IF Fails("createTag") THEN Failed(S)
            ELSE IF IsMem THEN Checked(Mem_getTagByName(S, r.name))
            ELSE Checked(Db_getTagByName(S, r.name))
       [] r.pc = "createTag.insert" ->
            IF IsMem THEN Inserted(Mem_insertTag(S, [name |-> r.name]))
            ELSE Inserted(Db_insertTag(S, [name |-> r.name]))
       [] r.pc = "addTagToArticle" ->
            Added(st_addTagToArticle(S, [articleId |-> r.article, tagId |-> r.tag]))
       [] r.pc = "getArticle" -> Fetched(st_getArticle(S, r.article))

\* A request with a tag name arrives, or createTag is called.
ReceiveTagged(routes, users, names) ==
  \E route \in routes, user \in users, name \in names :
    /\ Cardinality(pending) < MaxInFlight
    /\ pending' = pending \cup
         {[ rid |-> FreeRid, route |-> route, user |-> user, name |-> name,
            pc |-> IF route = "createTag" THEN "createTag" ELSE "createArticle",
            article |-> 0, tag |-> 0 ]}
    /\ UNCHANGED <<storage, backend, failing, resp, now>>

SettleTagged(r, h) ==
  /\ storage' = h.S
  /\ IF "status" \in DOMAIN h
     THEN /\ pending' = pending \ {r}
          /\ resp' = [ op |-> r.route, user |-> r.user, arg |-> [name |-> r.name],
                       status |-> h.status, body |-> h.body,
                       unhandled |-> h.unhandled ]
     ELSE /\ pending' = (pending \ {r}) \cup
                          {[r EXCEPT !.pc = h.pc, !.article = h.article, !.tag = h.tag]}
          /\ resp' = resp
  /\ UNCHANGED <<backend, failing, now>>

Resume_tagged ==
  \E r \in pending :
    /\ r.pc = "createArticle" => storage.articleIdCounter \in ArticleIds
    /\ r.pc = "addTagToArticle" => RoomFor(storage)
    /\ SettleTagged(r, Tagged_await(storage, r))

\* Two requests in flight that get or create a tag of the same name up to
\* case, and an article whose tags are replaced.
TagsNext ==
  \/ ReceiveTagged({"POST /api/articles", "createTag"}, {1}, {"go", "Go"})
  \/ Resume_tagged
  \/ Req_putArticle({1}, {1}, {[tags |-> <<"GO">>]})

SpecTags == InitWith({"mem", "db"}) /\ [][TagsNext]_vars

\* C20: no two stored tags have names that are equal after lower-casing,
\* however createTag calls and the get-or-create of POST and PUT article
\* requests are interleaved; createTag for a name that matches a stored tag
\* returns that tag and stores nothing.
C20_TagNamesUnique ==
  /\ [](\A t1, t2 \in DOMAIN storage.tagsData :
          toLowerCase(storage.tagsData[t1].name) = toLowerCase(storage.tagsData[t2].name)
            => t1 = t2)
  /\ [][ \A r \in pending :
           (r.route = "createTag" /\ r \notin pending') =>
             \A t \in DOMAIN storage.tagsData :
               toLowerCase(storage.tagsData[t].name) = toLowerCase(r.name)
                 => /\ storage'.tagsData = storage.tagsData
                    /\ ~resp'.unhandled
                    /\ resp'.body = storage.tagsData[t] ]_vars

\* ---------------------------------------------------------------------------
\* Retagging: articles are created with and without tags and their authors
\* replace the tags, with names in either case, with none, or leave them.
RetagPostBodies ==
  { [title |-> "t0"], [title |-> "t0", tags |-> <<"go">>],
    [title |-> "t0", tags |-> <<"AI", "CSS">>] }
RetagBodies ==
  { [title |-> "t1"], [tags |-> <<>>], [title |-> "t1", tags |-> <<>>],
    [title |-> "t1", tags |-> <<"Go">>], [tags |-> <<"ai", "GO">>],
    [title |-> "t1", tags |-> <<"CSS", "CSS">>], [id |-> 2, tags |-> <<"ai">>] }

RetagNext ==
  \/ Req_postArticle({1}, RetagPostBodies)
  \/ Req_putArticle(UserIds, ParamArticleIds, RetagBodies)
  \/ Req_getArticle({1}, ArticleIds)

SpecRetag == InitWith({"mem", "db"}) /\ [][RetagNext]_vars

\* The ids of the stored tags whose name is, ignoring case, one of `names`.
TagsNamed(S, names) ==
  { k \in DOMAIN S.tagsData :
      \E i \in DOMAIN names : toLowerCase(S.tagsData[k].name) = toLowerCase(names[i]) }

\* C21: after a PUT /api/articles/:id answered 200 whose body carries a tags
\* array, the tags associated with the article are exactly the stored tags
\* whose names match a name of the array ignoring case (none for an empty
\* array); answered 200 with no tags in the body, it leaves the associations
\* as they were.
C21_TagsReplaced ==
  [][ (resp'.op = "PUT /api/articles/:id" /\ resp'.status = 200) =>
        IF "tags" \in DOMAIN resp'.arg.body
        THEN /\ TagIdsOf(storage', resp'.arg.id)
                  = TagsNamed(storage', resp'.arg.body.tags)
             /\ Len(resp'.arg.body.tags) > 0 =>
                  TagIdsOf(storage', resp'.arg.id) # {}
        ELSE storage'.articleTagsData = storage.articleTagsData ]_vars

\* A PUT with the tags ['Go'] succeeded on an article and left it with the
\* one tag stored under the name 'go'.
C21_Witness ==
  /\ resp.op = "PUT /api/articles/:id"
  /\ resp.status = 200
  /\ "tags" \in DOMAIN resp.arg.body
  /\ resp.arg.body.tags = <<"Go">>
  /\ \E k \in DOMAIN storage.tagsData :
       /\ storage.tagsData[k].name = "go"
       /\ TagIdsOf(storage, resp.arg.id) = {k}

\* ---------------------------------------------------------------------------
\* Deleting an article of DatabaseStorage while likes, comments and bookmarks
\* of it are in flight: deleteArticle is five statements with an await before
\* each, and no transaction around them.

\* The rows that refer to article id: tag ids, comment ids, liking users,
\* bookmarking users.
RowsOfArticle(S, id) ==
  [ tags |-> TagIdsOf(S, id),
    comments |-> CommentsOf(S, id),
    likes |-> {S.likesData[k].userId : k \in LikesOf(S, id)},
    bookmarks |-> {S.bookmarksData[i].userId : i \in BookmarksOf(S, id)} ]

\* A DELETE /api/articles/:id request arrives; `before` remembers the rows of
\* the article at that moment (no request of DbDeleteNext but the delete
\* removes rows, so they are still stored when deleteArticle starts).
ReceiveDelete(users, ids) ==
  \E user \in users, id \in ids :
    /\ Cardinality(pending) < MaxInFlight
    /\ pending' = pending \cup
         {[ rid |-> FreeRid, route |-> "DELETE /api/articles/:id", user |-> user,
            id |-> id, pc |-> "getArticle", before |-> RowsOfArticle(storage, id) ]}
    /\ UNCHANGED <<storage, backend, failing, resp, now>>

DbDeleteNext ==
  \/ Req_postArticle({1}, {[title |-> "t0", tags |-> <<"go">>]})
  \/ Receive({"POST /api/articles/:id/like", "POST /api/articles/:id/comments",
              "POST /api/articles/:id/bookmark"}, {2}, {1})
  \/ ReceiveDelete({1}, {1})
  \/ Resume_like
  \/ Resume_comment
  \/ Resume_bookmark
  \/ Resume_deleteArticle

SpecDbDelete == InitWith({"db"}) /\ [][DbDeleteNext]_vars

\* The program counters at which deleteArticle has been entered.
InDeleteArticle ==
  { "deleteArticle", "deleteArticle.comments", "deleteArticle.likes",
    "deleteArticle.bookmarks", "deleteArticle.articles" }

\* C22: in the state in which a DELETE /api/articles/:id request that called
\* DatabaseStorage.deleteArticle is answered, either the article and every
\* article tag, comment, like and bookmark of it are gone, or the article and
\* every row it had when the request arrived are still stored.
C22_DeleteAllOrNothing ==
  [][ \A r \in pending :
        ( /\ r.route = "DELETE /api/articles/:id"
          /\ r.pc \in InDeleteArticle
          /\ \A q \in pending' : q.rid # r.rid ) =>
          LET after == RowsOfArticle(storage', r.id)
          IN \/ /\ r.id \notin DOMAIN storage'.articlesData
                /\ ~HasRowsOf(storage', r.id)
             \/ /\ r.id \in DOMAIN storage'.articlesData
                /\ r.before.tags \subseteq after.tags
                /\ r.before.comments \subseteq after.comments
                /\ r.before.likes \subseteq after.likes
                /\ r.before.bookmarks \subseteq after.bookmarks ]_vars

\* ---------------------------------------------------------------------------
\* Profile updates in flight: PUT /api/users/:id is suspended at its awaited
\* getUserByUsername, hashPassword and updateUser, and other requests run in
\* between.

\* PUT /api/users/:id resumed at r.pc; r.username is req.user.username, read
\* when the session was deserialized for the request.
PutUser_await(S, r) ==
  LET body == r.body
      Truthy(k) == k \in DOMAIN body /\ body[k] # ""
      Failed(T) == R(T, 500, Msg("Failed to update user profile"))
      keys == {k \in {"username", "password"} : Truthy(k)} \cup ({"bio"} \cap DOMAIN body)
      updateData == [k \in keys |->
                       IF k = "password" THEN hashPassword(body[k]) ELSE body[k]]
      Updated(u) == IF u.err THEN Failed(u.S)
                    ELSE IF ~IsDefined(u.ret) THEN R(u.S, 404, Msg("User not found"))
                    ELSE R(u.S, 200, Without(u.ret[1], "password"))
      Prepared(T) == IF Truthy("password") THEN Continue(T, "hashPassword")
                     ELSE Continue(T, "updateUser")
      Looked(e) == IF e.err THEN Failed(e.S)
                   ELSE IF IsDefined(e.ret)
                        THEN R(e.S, 400, Msg("Username already exists"))
                   ELSE Prepared(e.S)
  IN CASE r.pc = "entered" ->
            IF r.id # r.user THEN R(S, 403, Msg("You can only update your own profile"))
            ELSE IF Truthy("username") /\ body.username # r.username
                 THEN Continue(S, "getUserByUsername")
            ELSE Prepared(S)
       [] r.pc = "getUserByUsername" -> Looked(st_getUserByUsername(S, body.username))
       [] r.pc = "hashPassword" -> Continue(S, "updateUser")
       [] r.pc = "updateUser" -> Updated(st_updateUser(S, r.id, updateData))

\* A PUT /api/users/:id request of a signed-in user arrives.
ReceivePutUser(users, ids, bodies) ==
  \E user \in users, id \in ids, body \in bodies :
    /\ Cardinality(pending) < MaxInFlight
    /\ pending' = pending \cup
         {[ rid |-> FreeRid, route |-> "PUT /api/users/:id", user |-> user,
            id |-> id, pc |-> "entered", body |-> body,
            username |-> reqUser(storage, user).username ]}
    /\ UNCHANGED <<storage, backend, failing, resp, now>>

Resume_putUser ==
  \E r \in pending :
    /\ r.route = "PUT /api/users/:id"
    /\ Settle(r, PutUser_await(storage, r))

\* A new username together with a new password, the username of user 2, and
\* a body with no username.
ProfileBodies ==
  { [username |-> "zed", password |-> "pw2"], [username |-> "bob"], [bio |-> "b"] }

ProfilesNext ==
  \/ ReceivePutUser(UserIds, UserIds, ProfileBodies)
  \/ Resume_putUser

SpecProfiles == InitWith({"mem", "db"}) /\ [][ProfilesNext]_vars

\* C23: in every reachable state no two stored users have the same username,
\* however PUT /api/users/:id requests are interleaved at their awaits.
C23_UsernamesUnique ==
  \A k1, k2 \in DOMAIN storage.usersData :
    storage.usersData[k1].username = storage.usersData[k2].username => k1 = k2

\* With DatabaseStorage the unique constraint of users.username keeps the
\* usernames distinct.
C23_DbUsernamesUnique == backend = "db" => C23_UsernamesUnique

\* A request for a username another user holds when the request's last step
\* runs is answered 400 and changes no user.
C23_TakenAnswered400 ==
  [][ \A r \in pending :
        ( /\ r.route = "PUT /api/users/:id"
          /\ r.id = r.user
          /\ \A q \in pending' : q.rid # r.rid
          /\ "username" \in DOMAIN r.body
          /\ \E k \in DOMAIN storage.usersData \ {r.user} :
               storage.usersData[k].username = r.body.username ) =>
          /\ resp'.status = 400
          /\ storage'.usersData = storage.usersData ]_vars

\* ---------------------------------------------------------------------------
\* Comments written by both users and deleted by their author, by the other
\* user and by nobody signed in; ids that are and are not stored.
CommentIds == 1..(MaxRows + 1)

CommentsNext ==
  \/ Req_postArticle({1}, {[title |-> "t0"]})
  \/ Req_postComment(UserIds, {1}, {[content |-> "hi"]})
  \/ Req_deleteComment(Sessions, CommentIds)
  \/ Req_getComments({1}, {1})

SpecComments == InitWith({"mem", "db"}) /\ [][CommentsNext]_vars

\* What a DELETE /api/comments/:id step of a signed-in user does, by the
\* stored comment it names: not stored, 404; of another author, 403; in both
\* cases, and whenever the answer is not 204, the comments stay as they were;
\* a step that removes a comment removes the one named, written by its
\* requester.
DeleteCommentStep ==
  LET id == resp'.arg.id
      stored == id \in DOMAIN storage.commentsData
  IN /\ ~stored => resp'.status = 404
     /\ (stored /\ storage.commentsData[id].authorId # resp'.user) => resp'.status = 403
     /\ resp'.status # 204 => storage'.commentsData = storage.commentsData
     /\ storage'.commentsData # storage.commentsData =>
          /\ stored
          /\ storage.commentsData[id].authorId = resp'.user
          /\ storage'.commentsData = MapDelete(storage.commentsData, id)

\* C24: DELETE /api/comments/:id removes the comment only for its author;
\* another signed-in user is answered 403, an id that is not stored 404, and
\* in both cases no comment is removed.
C24_OnlyAuthorDeletesComment ==
  [][ (resp'.op = "DELETE /api/comments/:id" /\ resp'.user # Anon) =>
        DeleteCommentStep ]_vars

\* The same with DatabaseStorage, where the route and the storage read one
\* comments table.
C24_DbOnlyAuthorDeletesComment ==
  [][ (resp'.op = "DELETE /api/comments/:id" /\ resp'.user # Anon /\ backend = "db") =>
        DeleteCommentStep ]_vars

\* With either storage, no DELETE /api/comments/:id step removes a comment
\* that its requester did not write.
C24_NoForeignCommentRemoved ==
  [][ resp'.op = "DELETE /api/comments/:id" =>
        \A k \in DOMAIN storage.commentsData \ DOMAIN storage'.commentsData :
          /\ k = resp'.arg.id
          /\ storage.commentsData[k].authorId = resp'.user ]_vars

(***************************************************************************)
(* The control flow of the handlers registerRoutes registers, with the     *)
(* response object of Express: a handler is the statements of its try      *)
(* block and of its catch block that await, may throw, send a response or  *)
(* return.  What a condition tests and what a call returns is left open:   *)
(* a condition may hold or not, a call may return or throw, a loop runs    *)
(* up to MaxTurns times.                                                   *)
(***************************************************************************)
\* Iterations of one for loop of a handler.
MaxTurns == 2
\* Requests whose handlers run at once in SpecAnswered.
MaxAnswering == 1

\* await f(...)
Await(call) == [k |-> "await", call |-> call]
\* f(...), not awaited by the handler, which may throw
Call(fn) == [k |-> "call", call |-> fn]
\* if (c) { ... await f(...) ... }
IfAwait(call) == [k |-> "ifAwait", call |-> call]
\* for (const x of xs) { ... await f(...) ... }
ForAwait(call) == [k |-> "forAwait", call |-> call]
\* xs.forEach(x => { ... f(...) ... }) with the promise of f left alone
Start(call) == [k |-> "start", call |-> call]
\* if (c) { res.status(status).json(...) } without the return
ReturnIf_noReturn(status) == [k |-> "ifSend", status |-> status]
\* if (c) { return res.status(status).json(...) }
ReturnIf(status) == [k |-> "ifSendReturn", status |-> status]
\* res.status(status).json(...), res.json(...), res.status(204).send(),
\* res.end(...) as a statement of its own
Send(status) == [k |-> "send", status |-> status]

\* app.<method>(path, [isAuthenticated,] async (req, res) => { try {...} catch {...} })
Handler(guarded, try, catch) == [guarded |-> guarded, try |-> try, catch |-> catch]
\* catch (error) { res.status(500).json({ message }) }
Catch500 == <<Send(500)>>
\* catch (error) { if (error instanceof ZodError) { return res.status(400)... } res.status(500)... }
CatchZod == <<ReturnIf(400), Send(500)>>

ArticleHandlers ==
  ( "GET /api/articles" :>                                    \* lines 41-64
      Handler(FALSE, << Await("storage.getArticles"), ForAwait("storage.isArticleLiked"),
                        Send(200) >>, Catch500) )
  @@ ( "GET /api/articles/featured" :>                        \* lines 67-86
      Handler(FALSE, << Await("storage.getFeaturedArticles"),
                        ForAwait("storage.isArticleLiked"), Send(200) >>, Catch500) )
  @@ ( "GET /api/articles/:id" :>                             \* lines 89-109
      Handler(FALSE, << Await("storage.getArticle"), ReturnIf(404),
                        IfAwait("storage.isArticleLiked"),
                        IfAwait("storage.isArticleBookmarked"), Send(200) >>, Catch500) )
  @@ ( "POST /api/articles" :>                                \* lines 112-151
      Handler(TRUE, << Call("insertArticleSchema.parse"), Await("storage.createArticle"),
                       ForAwait("storage.getTagByName"), Await("storage.getArticle"),
                       Send(201) >>, CatchZod) )
  @@ ( "PUT /api/articles/:id" :>                             \* lines 154-199
      Handler(TRUE, << Await("storage.getArticle"), ReturnIf(404), ReturnIf(403),
                       Await("storage.updateArticle"), IfAwait("storage.getTagsByArticleId"),
                       ForAwait("storage.removeTagFromArticle"),
                       ForAwait("storage.getTagByName"), Await("storage.getArticle"),
                       Send(200) >>, Catch500) )
  @@ ( "DELETE /api/articles/:id" :>                          \* lines 202-223
      Handler(TRUE, << Await("storage.getArticle"), ReturnIf(404), ReturnIf(403),
                       Await("storage.deleteArticle"), Send(204) >>, Catch500) )

CommentHandlers ==
  ( "GET /api/articles/:id/comments" :>                       \* lines 228-237
      Handler(FALSE, << Await("storage.getCommentsByArticleId"), Send(200) >>, Catch500) )
  @@ ( "POST /api/articles/:id/comments" :>                   \* lines 240-277
      Handler(TRUE, << Await("storage.getArticle"), ReturnIf(404),
                       Call("insertCommentSchema.parse"), Await("storage.createComment"),
                       Send(201) >>, CatchZod) )
  @@ ( "DELETE /api/comments/:id" :>                          \* lines 280-306
      Handler(TRUE, << Await("db.select"), ReturnIf(404), ReturnIf(403),
                       Await("storage.deleteComment"), Send(204) >>, Catch500) )

LikeHandlers ==
  ( "POST /api/articles/:id/like" :>                          \* lines 311-331
      Handler(TRUE, << Await("storage.getArticle"), ReturnIf(404),
                       Await("storage.likeArticle"), Await("storage.getLikeCount"),
                       Send(200) >>, Catch500) )
  @@ ( "DELETE /api/articles/:id/like" :>                     \* lines 334-354
      Handler(TRUE, << Await("storage.getArticle"), ReturnIf(404),
                       Await("storage.unlikeArticle"), Await("storage.getLikeCount"),
                       Send(200) >>, Catch500) )

BookmarkHandlers ==
  ( "POST /api/articles/:id/bookmark" :>                      \* lines 359-376
      Handler(TRUE, << Await("storage.getArticle"), ReturnIf(404),
                       Await("storage.bookmarkArticle"), Send(200) >>, Catch500) )
  @@ ( "DELETE /api/articles/:id/bookmark" :>                 \* lines 379-396
      Handler(TRUE, << Await("storage.getArticle"), ReturnIf(404),
                       Await("storage.unbookmarkArticle"), Send(200) >>, Catch500) )
  @@ ( "GET /api/bookmarks" :>                                \* lines 399-414
      Handler(TRUE, << Await("storage.getUserBookmarks"), Start("storage.isArticleLiked"),
                       Send(200) >>, Catch500) )

FollowHandlers ==
  ( "POST /api/users/:id/follow" :>                           \* lines 419-443
      Handler(TRUE, << ReturnIf(400), Await("storage.getUser"), ReturnIf(404),
                       Await("storage.followUser"), Await("storage.getFollowerCount"),
                       Send(200) >>, Catch500) )
  @@ ( "DELETE /api/users/:id/follow" :>                      \* lines 446-466
      Handler(TRUE, << Await("storage.getUser"), ReturnIf(404),
                       Await("storage.unfollowUser"), Await("storage.getFollowerCount"),
                       Send(200) >>, Catch500) )

UserHandlers ==
  ( "GET /api/users/:id" :>                                   \* lines 471-508
      Handler(FALSE, << Await("storage.getUser"), ReturnIf(404),
                        Await("storage.getArticles"), Await("storage.getFollowerCount"),
                        Await("storage.getFollowingCount"), IfAwait("storage.isFollowing"),
                        Send(200) >>, Catch500) )
  @@ ( "POST /api/users/upload-photo" :>                      \* lines 511-533
      Handler(TRUE, << ReturnIf(400), Await("photo.mv"), Await("storage.updateUser"),
                       Send(200) >>, Catch500) )
  @@ ( "PUT /api/users/:id" :>                                \* lines 536-582
      Handler(TRUE, << ReturnIf(403), IfAwait("storage.getUserByUsername"), ReturnIf(400),
                       IfAwait("hashPassword"), Await("storage.updateUser"),
                       ReturnIf(404), Send(200) >>, Catch500) )
  @@ ( "GET /api/authors/popular" :>                          \* lines 585-609
      Handler(FALSE, << Await("storage.getPopularAuthors"), ForAwait("storage.isFollowing"),
                        Send(200) >>, Catch500) )

TagHandlers ==
  ( "GET /api/tags" :>                                        \* lines 614-621
      Handler(FALSE, << Await("storage.getAllTags"), Send(200) >>, Catch500) )
  @@ ( "GET /api/tags/popular" :>                             \* lines 624-632
      Handler(FALSE, << Await("storage.getPopularTags"), Send(200) >>, Catch500) )

AiHandlers ==
  ( "POST /api/ai/summary" :>                                 \* lines 637-651
      Handler(FALSE, << ReturnIf(400), Await("generateArticleSummary"), Send(200) >>,
              Catch500) )
  @@ ( "POST /api/ai/related-topics" :>                       \* lines 654-668
      Handler(FALSE, << ReturnIf(400), Await("generateRelatedTopics"), Send(200) >>,
              Catch500) )
  @@ ( "POST /api/ai/analyze" :>                              \* lines 671-685
      Handler(FALSE, << ReturnIf(400), Await("analyzeWritingQuality"), Send(200) >>,
              Catch500) )
  @@ ( "POST /api/ai/text-to-speech" :>                       \* lines 688-712
      Handler(FALSE, << ReturnIf(400), Await("generateAudioFromText"), ReturnIf(500),
                        Call("res.setHeader"), Call("res.setHeader"), Send(200) >>,
              Catch500) )

\* The routes of registerRoutes, by method and path.
Handlers ==
  ArticleHandlers @@ CommentHandlers @@ LikeHandlers @@ BookmarkHandlers
    @@ FollowHandlers @@ UserHandlers @@ TagHandlers @@ AiHandlers

\* The next states of the request r, whose handler is at statement r.pc of
\* r.block.  A response is sent when none was sent before; res.json and
\* res.send throw once the headers are sent (`refused`).  A throw in the try
\* block enters the catch block; a throw in the catch block leaves the
\* handler with nothing to catch it.
Successors(r) ==
  LET h == Handlers[r.route]
      prog == IF r.block = "try" THEN h.try ELSE h.catch
      s == prog[r.pc]
      Done(q) == [q EXCEPT !.block = "done"]
      Forward(q) == [q EXCEPT !.pc = q.pc + 1, !.n = 0]
      Throw(q) == IF q.block = "try" THEN [q EXCEPT !.block = "catch", !.pc = 1, !.n = 0]
                  ELSE [Done(q) EXCEPT !.unhandled = TRUE]
      Written(status) == [r EXCEPT !.sent = 1, !.status = status]
      Refused == Throw([r EXCEPT !.refused = 1])
  IN IF r.block = "middleware"
     THEN IF h.guarded /\ ~r.authed THEN {Done(Written(401))}     \* lines 19-24
          ELSE {[r EXCEPT !.block = "try", !.pc = 1]}
     ELSE IF r.pc > Len(prog) THEN {Done(r)}
     ELSE CASE s.k \in {"await", "call", "ifAwait"} -> {Forward(r), Throw(r)}
            [] s.k = "forAwait" ->
                 {Forward(r)} \cup (IF r.n < MaxTurns
                                    THEN {[r EXCEPT !.n = r.n + 1], Throw(r)} ELSE {})
            [] s.k = "start" -> {Forward(r)}
            [] s.k = "ifSendReturn" ->
                 {Forward(r), IF r.sent > 0 THEN Refused ELSE Done(Written(s.status))}
            [] s.k = "ifSend" ->
                 {Forward(r), IF r.sent > 0 THEN Refused ELSE Forward(Written(s.status))}
            [] s.k = "send" ->
                 {IF r.sent > 0 THEN Refused ELSE Forward(Written(s.status))}

\* A request arrives, with or without a session, and awaits its middleware.
Arrive ==
  \E route \in DOMAIN Handlers, authed \in BOOLEAN :
    /\ Cardinality(pending) < MaxAnswering
    /\ pending' = pending \cup
         {[ rid |-> CHOOSE n \in 1..MaxAnswering : \A q \in pending : q.rid # n,
            route |-> route, authed |-> authed, block |-> "middleware", pc |-> 0,
            n |-> 0, sent |-> 0, refused |-> 0, status |-> 0, unhandled |-> FALSE ]}
    /\ UNCHANGED <<storage, backend, failing, resp, now>>

\* The handler of request i runs its next statement.
Advance(i) ==
  \E r \in pending :
    /\ r.rid = i
    /\ r.block # "done"
    /\ \E q \in Successors(r) : pending' = (pending \ {r}) \cup {q}
    /\ UNCHANGED <<storage, backend, failing, resp, now>>

\* The connection of a request whose handler was left is closed.
Close ==
  \E r \in pending :
    /\ r.block = "done"
    /\ pending' = pending \ {r}
    /\ UNCHANGED <<storage, backend, failing, resp, now>>

AnsweredNext ==
  \/ Arrive
  \/ \E i \in 1..MaxAnswering : Advance(i)
  \/ Close

\* Every awaited promise settles and the event loop runs the continuation of
\* each settled promise: a handler that can take a step takes one.
SpecAnswered ==
  /\ InitWith({"mem", "db"})
  /\ [][AnsweredNext]_vars
  /\ \A i \in 1..MaxAnswering : WF_vars(Advance(i))

\* Request i is being handled / its handler was left.
Handling(i) == \E r \in pending : r.rid = i /\ r.block # "done"
Left(i) == \E r \in pending : r.rid = i /\ r.block = "done"

\* No send was refused because a response had been sent, and a handler that
\* was left has sent its one response.
OneResponse ==
  \A r \in pending :
    /\ r.refused = 0
    /\ r.block = "done" => (r.sent = 1 /\ r.status # 0)

\* C25: every request to a route of registerRoutes is answered exactly once:
\* no control path of a handler sends a second response or is left without a
\* response sent, and every request that is being handled is eventually
\* answered.
C25_AnsweredExactlyOnce ==
  /\ []OneResponse
  /\ \A i \in 1..MaxAnswering : Handling(i) ~> Left(i)

\* POST /api/ai/text-to-speech was left through its catch block (whose one
\* statement was passed) with the one response 500.
C25_Witness ==
  \E r \in pending :
    /\ r.route = "POST /api/ai/text-to-speech"
    /\ r.block = "done"
    /\ r.pc = Len(Catch500) + 1
    /\ r.sent = 1
    /\ r.status = 500
    /\ r.refused = 0

====
